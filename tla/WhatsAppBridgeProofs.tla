-------------------------- MODULE WhatsAppBridgeProofs --------------------------
(***************************************************************************)
(* What a WhatsApp chat may rely on, for any number of messages, crashes   *)
(* and failures, and any number of orderly stops.                          *)
(***************************************************************************)
EXTENDS WhatsAppBridge, FiniteSetTheorems, SequenceTheorems, WellFoundedInduction, TLAPS

(* Bounded sets of numbers have ends. *)
LEMMA HasMin ==
    ASSUME NEW S, S \subseteq Nat, S # {}
    PROVE  \E x \in S : \A y \in S : x <= y
<1> DEFINE R == OpToRel(<, Nat)
<1>1. IsWellFoundedOn(R, Nat)
  BY NatLessThanWellFounded
<1>2. PICK x \in S : \A y \in S : ~(<<y, x>> \in R)
  <2> HIDE DEF R
  <2> QED
    BY <1>1, WFMin
<1>3. ASSUME NEW y \in S, y < x PROVE <<y, x>> \in R
  BY <1>3 DEF OpToRel
<1>4. ASSUME NEW y \in S PROVE x <= y
  <2>1. ~(<<y, x>> \in R)
    BY <1>2
  <2>2. ~(y < x)
    <3> HIDE DEF R
    <3> QED
      BY <1>3, <2>1
  <2> QED
    BY <2>2
<1> QED
  BY <1>4

LEMMA HasMax ==
    ASSUME NEW S, NEW n \in Nat, S \subseteq 0..n, S # {}
    PROVE  \E x \in S : \A y \in S : x >= y
<1> DEFINE T == {n - x : x \in S}
<1>1. T \subseteq Nat /\ T # {}
  <2>1. PICK s \in S : TRUE
    OBVIOUS
  <2>2. n - s \in T /\ \A x \in S : n - x \in Nat
    OBVIOUS
  <2> QED
    BY <2>2
<1>2. PICK t \in T : \A u \in T : t <= u
  BY <1>1, HasMin
<1>3. PICK x \in S : t = n - x
  BY <1>2
<1>4. ASSUME NEW y \in S PROVE x >= y
  <2>1. n - y \in T
    OBVIOUS
  <2>2. t <= n - y
    BY <1>2, <2>1
  <2> QED
    BY <1>3, <2>2
<1> QED
  BY <1>4
-------------------------------------------------------------------------------
(* A segment of what is to do is its beginning. *)

LEMMA SegmentIs ==
    ASSUME NEW first \in Nat, NEW last \in Nat, first > 0, first <= last,
           last <= Len(kinds), kinds \in Seq(Kind)
    PROVE  LET S == Segment(first..last) IN
           /\ Max(S) \in first..last
           /\ S = first..Max(S)
           /\ IsCommand(Max(S)) => Max(S) = first
           /\ ~IsCommand(Max(S)) =>
                 /\ \A k \in S : ~IsCommand(k)
                 /\ \A s \in Max(S)..last : (\A k \in Max(S)..s : ~IsCommand(k)) => s = Max(S)
<1> DEFINE todo == first..last
           S == Segment(todo)
<1>1. Min(todo) = first
  <2>1. first \in todo /\ \A y \in todo : first <= y
    OBVIOUS
  <2>2. \E x \in todo : \A y \in todo : x <= y
    BY <2>1
  <2>3. Min(todo) \in todo /\ \A y \in todo : Min(todo) <= y
    BY <2>2 DEF Min
  <2> QED
    BY <2>1, <2>3
<1>2. CASE IsCommand(first)
  <2>1. S = {first}
    BY <1>1, <1>2 DEF Segment
  <2> HIDE DEF S
  <2>2. Max(S) = first
    <3>1. \E x \in S : \A y \in S : x >= y
      BY <2>1
    <3>2. Max(S) \in S
      BY <3>1 DEF Max
    <3> QED
      BY <2>1, <3>2
  <2>3. Max(S) \in first..last /\ S = first..Max(S) /\ IsCommand(Max(S))
    <3>1. first \in first..last /\ first..first = {first}
      OBVIOUS
    <3> QED
      BY <1>2, <2>1, <2>2, <3>1 DEF IsCommand
  <2> QED
    BY <2>2, <2>3 DEF S
<1>3. CASE ~IsCommand(first)
  <2>1. S = {n \in todo : \A k \in todo : k <= n => ~IsCommand(k)}
    BY <1>1, <1>3 DEF Segment
  <2>2. first \in S
    BY <1>3, <2>1
  <2>3. S \subseteq 0..last
    BY <2>1
  <2>4. \E x \in S : \A y \in S : x >= y
    <3> HIDE DEF S
    <3> QED
      BY <2>2, <2>3, HasMax
  <2>5. Max(S) \in S /\ \A y \in S : Max(S) >= y
    <3> HIDE DEF S
    <3> QED
      BY <2>4 DEF Max
  <2> DEFINE m == Max(S)
  <2> HIDE DEF S, m
  <2>6. m \in S /\ \A y \in S : m >= y
    BY <2>5 DEF m
  <2>7. m \in first..last
    BY <2>1, <2>6
  <2>8. \A k \in first..m : ~IsCommand(k)
    BY <2>1, <2>6, <2>7
  <2>9. S = first..m
    <3>1. \A k \in first..m : k \in S
      BY <2>1, <2>7, <2>8
    <3>2. \A k \in S : k \in first..m
      BY <2>1, <2>6, <2>7
    <3> QED
      BY <3>1, <3>2
  <2>10. ASSUME NEW s \in m..last, \A k \in m..s : ~IsCommand(k)
         PROVE  s = m
    <3>1. s \in todo /\ \A k \in todo : k <= s => ~IsCommand(k)
      <4>1. ASSUME NEW k \in todo, k <= s PROVE ~IsCommand(k)
        <5>1. CASE k <= m
          BY <2>8, <5>1
        <5>2. CASE k >= m
          BY <2>7, <2>10, <4>1, <5>2
        <5> QED
          BY <2>7, <5>1, <5>2
      <4> QED
        BY <2>7, <4>1
    <3>2. s \in S
      BY <2>1, <3>1
    <3> QED
      BY <2>6, <2>7, <3>2
  <2>11. ~IsCommand(m)
    BY <2>7, <2>8
  <2> QED
    BY <2>7, <2>8, <2>9, <2>10, <2>11 DEF S, m
<1> QED
  BY <1>2, <1>3
-------------------------------------------------------------------------------
(* The inductive invariant. *)

(* An intake row stands for a message of its kind, and shows none that came  *)
(* after it.                                                                 *)
Sources ==
    \A i \in accepted :
        /\ i.source \in DOMAIN kinds
        /\ i.command => IsCommand(i.source)
        /\ i.batch \subseteq 1..i.source

IsSource(n) == \E i \in accepted : i.source = n

Shown(n) == \E i \in accepted : n \in i.batch

(* What is marked as seen was shown, but for commands. *)
SeenShown == \A n \in seen : IsCommand(n) \/ Shown(n)

Reaches(n, s) == n <= s /\ \A k \in n..s : ~IsCommand(k)

(* What is marked as seen and will be polled again is in a segment that was  *)
(* accepted: the process died between the marks.                             *)
SeenFresh ==
    \A n \in seen :
        n > dispatched /\ ~IsCommand(n) => \E i \in accepted : Reaches(n, i.source)

(* A poll works on all that is fresh up to the last message it has found.    *)
PollSound ==
    poll.at # "rest" =>
        \E last \in dispatched..Len(kinds) :
            /\ poll.todo = (dispatched + 1)..last
            /\ \A i \in accepted : i.source <= last

(* A prompt has all that is unseen, and nothing that is seen but when it was *)
(* accepted before.                                                          *)
PromptSound ==
    /\ ~CommandNext
    /\ poll.batch \subseteq 1..Last
    /\ Unseen(Last) \subseteq poll.batch
    /\ poll.batch \cap seen = {} \/ IsSource(Last)

AtSound ==
    /\ poll.at = "next" => poll.batch = {}
    /\ poll.at \in {"prompt", "accepted", "marked"} => poll.todo # {}
    /\ poll.at = "prompt" => PromptSound
    /\ poll.at = "accepted" => IsSource(Last)

Showing(n) == {i \in accepted : n \in i.batch}

Due(n) ==
    IF n \in seen \/ (poll.at = "accepted" /\ ~CommandNext /\ n <= Last) THEN 1 ELSE 0

(* Every showing but one that is marked, or about to be, has cost a fault.   *)
CountSound == \A n \in DOMAIN kinds : Cardinality(Showing(n)) <= faults + Due(n)

Types == TypeOK /\ IsFiniteSet(accepted)

ChatInv ==
    /\ Sources /\ SeenShown /\ SeenFresh /\ PollSound /\ AtSound /\ CountSound
    /\ ContextComplete

RestInv ==
    /\ ClosedIsAtRest
    /\ phase = "draining commands" => tick = "none"

Inv == Types /\ ChatInv /\ RestInv
-------------------------------------------------------------------------------
(* The poll's next segment. *)

LEMMA NextIs ==
    ASSUME Types, PollSound, poll.at # "rest", poll.todo # {},
           NEW last \in dispatched..Len(kinds), poll.todo = (dispatched + 1)..last
    PROVE  /\ Last \in (dispatched + 1)..last
           /\ Current = (dispatched + 1)..Last
           /\ CommandNext => Last = dispatched + 1
           /\ ~CommandNext =>
                 /\ \A k \in Current : ~IsCommand(k)
                 /\ \A s \in Last..last : Reaches(Last, s) => s = Last
<1>1. dispatched \in Nat /\ last \in Nat /\ last <= Len(kinds) /\ dispatched <= last
      /\ kinds \in Seq(Kind)
  BY DEF Types, TypeOK
<1>2. dispatched + 1 <= last
  BY <1>1
<1> DEFINE first == dispatched + 1
           S == Segment(first..last)
<1>3. first \in Nat /\ first > 0 /\ first <= last
  BY <1>1, <1>2
<1>4. /\ Max(S) \in first..last
      /\ S = first..Max(S)
      /\ IsCommand(Max(S)) => Max(S) = first
      /\ ~IsCommand(Max(S)) =>
            /\ \A k \in S : ~IsCommand(k)
            /\ \A s \in Max(S)..last : (\A k \in Max(S)..s : ~IsCommand(k)) => s = Max(S)
  <2> HIDE DEF first
  <2> QED
    BY <1>1, <1>3, SegmentIs
<1>5. Current = S /\ Last = Max(S) /\ CommandNext = IsCommand(Max(S))
  BY DEF Current, Last, CommandNext
<1> HIDE DEF S
<1> QED
  BY <1>4, <1>5 DEF Reaches

LEMMA FaultsCount == ASSUME Types PROVE faults \in Nat
<1>1. faults \in 0..MaxFaults
  BY DEF Types, TypeOK, RuntimeTypeOK
<1> QED
  BY <1>1, RelayRuntimeAssumption

LEMMA KeptTerms ==
    ASSUME kinds' = kinds, poll'.todo = poll.todo
    PROVE  /\ Current' = Current /\ Last' = Last
           /\ (CommandNext <=> CommandNext')
           /\ \A n : IsCommand(n) <=> IsCommand(n)'
BY DEF Current, Last, CommandNext, Segment, IsCommand
-------------------------------------------------------------------------------
(* What each step does to the chat's part of the invariant. *)

LEMMA QuietStep ==
    ASSUME ChatInv, Types, UNCHANGED <<accepted, kinds, dispatched, seen, poll>>,
           faults' \in Nat, faults <= faults'
    PROVE  ChatInv'
<1>1. /\ Last' = Last /\ (CommandNext <=> CommandNext')
      /\ \A n : IsCommand(n) <=> IsCommand(n)'
  BY KeptTerms
<1>2. Sources' /\ SeenShown' /\ SeenFresh' /\ PollSound' /\ ContextComplete'
  BY <1>1 DEF ChatInv, Sources, SeenShown, SeenFresh, PollSound, ContextComplete, Shown, Reaches,
     IsCommand
<1>3. AtSound'
  BY <1>1 DEF ChatInv, AtSound, PromptSound, IsSource, Unseen
<1>4. CountSound'
  <2> SUFFICES ASSUME NEW n \in DOMAIN kinds
               PROVE  Cardinality(Showing(n)') <= faults' + Due(n)'
    BY DEF CountSound
  <2>1. Showing(n)' = Showing(n) /\ Due(n)' = Due(n)
    BY <1>1 DEF Showing, Due
  <2>2. Cardinality(Showing(n)) \in Nat
    BY FS_Subset, FS_CardinalityType DEF Types, Showing
  <2>3. Cardinality(Showing(n)) <= faults + Due(n)
    BY DEF ChatInv, CountSound
  <2>4. Cardinality(Showing(n)') = Cardinality(Showing(n))
    BY <2>1
  <2>5. Due(n) \in 0..1 /\ faults \in Nat
    BY FaultsCount DEF Due
  <2> QED
    BY <2>1, <2>2, <2>3, <2>4, <2>5
<1> QED
  BY <1>2, <1>3, <1>4 DEF ChatInv

LEMMA PollGone ==
    ASSUME ChatInv, Types, UNCHANGED <<accepted, kinds, dispatched, seen>>, poll' = Rest,
           \/ faults' = faults + 1
           \/ faults' = faults /\ poll.at # "accepted"
    PROVE  ChatInv'
<1>1. \A n : IsCommand(n) <=> IsCommand(n)'
  BY DEF IsCommand
<1>2. poll'.at = "rest"
  BY DEF Rest
<1>3. Sources' /\ SeenShown' /\ SeenFresh' /\ PollSound' /\ AtSound' /\ ContextComplete'
  BY <1>1, <1>2 DEF ChatInv, Sources, SeenShown, SeenFresh, PollSound, AtSound, ContextComplete,
     Shown, Reaches, IsCommand
<1>4. CountSound'
  <2> SUFFICES ASSUME NEW n \in DOMAIN kinds
               PROVE  Cardinality(Showing(n)') <= faults' + Due(n)'
    BY DEF CountSound
  <2>1. Showing(n)' = Showing(n)
    BY DEF Showing
  <2>2. Cardinality(Showing(n)) \in Nat
    BY FS_Subset, FS_CardinalityType DEF Types, Showing
  <2>3. Cardinality(Showing(n)) <= faults + Due(n)
    BY DEF ChatInv, CountSound
  <2>4. Due(n) \in 0..1 /\ Due(n)' \in 0..1
    BY DEF Due
  <2>5. poll.at # "accepted" => Due(n) = Due(n)'
    BY <1>2 DEF Due
  <2>6. Cardinality(Showing(n)') = Cardinality(Showing(n))
    BY <2>1
  <2>7. faults \in Nat
    BY FaultsCount
  <2> QED
    BY <2>2, <2>3, <2>4, <2>5, <2>6, <2>7
<1> QED
  BY <1>3, <1>4 DEF ChatInv

(* The counts of a step that accepts nothing and passes no fault on. *)
LEMMA CountsKept ==
    ASSUME ChatInv, Types, accepted' = accepted, faults' = faults,
           DOMAIN kinds' = DOMAIN kinds,
           \A n \in DOMAIN kinds : Due(n) <= Due(n)'
    PROVE  CountSound'
<1> SUFFICES ASSUME NEW n \in DOMAIN kinds
             PROVE  Cardinality(Showing(n)') <= faults' + Due(n)'
  BY DEF CountSound
<1>1. Showing(n)' = Showing(n)
  BY DEF Showing
<1>2. Cardinality(Showing(n)) \in Nat
  BY FS_Subset, FS_CardinalityType DEF Types, Showing
<1>3. Cardinality(Showing(n)) <= faults + Due(n)
  BY DEF ChatInv, CountSound
<1>4. Cardinality(Showing(n)') = Cardinality(Showing(n))
  BY <1>1
<1>5. Due(n) \in 0..1 /\ Due(n)' \in 0..1 /\ faults \in Nat /\ Due(n) <= Due(n)'
  BY FaultsCount DEF Due
<1> QED
  BY <1>2, <1>3, <1>4, <1>5

LEMMA StoreKeeps ==
    ASSUME Inv, NEW kind \in Kind, Store(kind)
    PROVE  ChatInv'
<1> USE DEF Inv
<1>1. /\ kinds \in Seq(Kind) /\ kinds' = Append(kinds, kind)
      /\ UNCHANGED <<accepted, faults, dispatched, seen, poll>>
  BY DEF Store, Types, TypeOK, runtimeVars
<1>2. /\ Len(kinds) \in Nat /\ Len(kinds') = Len(kinds) + 1
      /\ DOMAIN kinds = 1..Len(kinds) /\ DOMAIN kinds' = 1..Len(kinds')
      /\ \A n \in DOMAIN kinds : kinds'[n] = kinds[n]
  BY <1>1
<1>3. \A n \in DOMAIN kinds : IsCommand(n) <=> IsCommand(n)'
  BY <1>2 DEF IsCommand
<1>4. seen \subseteq DOMAIN kinds /\ dispatched \in 0..Len(kinds)
  BY DEF Types, TypeOK
<1>5. Sources' /\ SeenShown'
  <2>1. Sources /\ SeenShown
    BY DEF ChatInv
  <2>2. Sources'
    BY <1>1, <1>2, <1>3, <2>1 DEF Sources
  <2>3. SeenShown'
    BY <1>1, <1>3, <1>4, <2>1 DEF SeenShown, Shown
  <2> QED
    BY <2>2, <2>3
<1>6. ASSUME NEW n \in Nat \ {0}, NEW s \in DOMAIN kinds, Reaches(n, s) PROVE Reaches(n, s)'
  BY <1>2, <1>3, <1>6 DEF Reaches
<1>7. SeenFresh'
  <2> SUFFICES ASSUME NEW n \in seen, n > dispatched, ~IsCommand(n)'
               PROVE  \E i \in accepted : Reaches(n, i.source)'
    BY <1>1 DEF SeenFresh
  <2>1. PICK i \in accepted : Reaches(n, i.source)
    BY <1>3, <1>4 DEF ChatInv, SeenFresh
  <2>2. i.source \in DOMAIN kinds /\ n \in Nat \ {0}
    BY <1>2, <1>4 DEF ChatInv, Sources
  <2> QED
    BY <1>6, <2>1, <2>2
<1>8. PollSound'
  BY <1>1, <1>2, <1>4 DEF ChatInv, PollSound
<1>9. ContextComplete'
  <2> SUFFICES ASSUME NEW i \in accepted, ~i.command, NEW n \in 1..i.source
               PROVE  IsCommand(n)' \/ \E j \in accepted : n \in j.batch
    BY <1>1 DEF ContextComplete
  <2>1. IsCommand(n) \/ \E j \in accepted : n \in j.batch
    BY DEF ChatInv, ContextComplete
  <2>2. n \in DOMAIN kinds
    BY <1>2 DEF ChatInv, Sources
  <2> QED
    BY <1>3, <2>1, <2>2
<1>10. poll.at \in {"prompt", "accepted"} =>
           Last' = Last /\ (CommandNext <=> CommandNext') /\ Last \in DOMAIN kinds
  <2> SUFFICES ASSUME poll.at \in {"prompt", "accepted"}
               PROVE  Last' = Last /\ (CommandNext <=> CommandNext') /\ Last \in DOMAIN kinds
    OBVIOUS
  <2>1. PICK last \in dispatched..Len(kinds) : poll.todo = (dispatched + 1)..last
    BY DEF ChatInv, PollSound
  <2>2. poll.todo # {}
    BY DEF ChatInv, AtSound
  <2>3. poll.todo \subseteq DOMAIN kinds
    BY <1>2, <1>4, <2>1
  <2>4. Min(poll.todo) \in poll.todo
    <3>1. \E x \in poll.todo : \A y \in poll.todo : x <= y
      BY <1>2, <2>2, <2>3, HasMin
    <3> QED
      BY <3>1 DEF Min
  <2>5. Current' = Current
    BY <1>1, <1>3, <2>3, <2>4 DEF Current, Segment
  <2>6. Last' = Last
    BY <2>5 DEF Last
  <2>7. Last \in DOMAIN kinds
    BY <1>2, <1>4, <2>1, <2>2, NextIs DEF ChatInv
  <2> QED
    BY <1>3, <2>6, <2>7 DEF CommandNext
<1>11. AtSound'
  <2>1. AtSound
    BY DEF ChatInv
  <2> QED
    BY <1>1, <1>10, <2>1 DEF AtSound, PromptSound, IsSource, Unseen
<1>12. CountSound'
  <2> SUFFICES ASSUME NEW n \in DOMAIN kinds'
               PROVE  Cardinality(Showing(n)') <= faults' + Due(n)'
    BY DEF CountSound
  <2>1. Showing(n)' = Showing(n)
    BY <1>1 DEF Showing
  <2>2. Cardinality(Showing(n)') = Cardinality(Showing(n))
    BY <2>1
  <2>3. CASE n \in DOMAIN kinds
    <3>1. Due(n)' = Due(n)
      BY <1>1, <1>10 DEF Due
    <3>2. Cardinality(Showing(n)) <= faults + Due(n)
      BY <2>3 DEF ChatInv, CountSound
    <3> QED
      BY <1>1, <2>2, <3>1, <3>2
  <2>4. CASE n \notin DOMAIN kinds
    <3>1. Showing(n) = {}
      BY <1>2, <2>4 DEF Showing, ChatInv, Sources
    <3>2. Cardinality(Showing(n)) = 0
      BY <3>1, FS_EmptySet
    <3>3. Due(n)' \in 0..1 /\ faults \in Nat
      BY FaultsCount DEF Due
    <3> QED
      BY <1>1, <2>2, <3>2, <3>3
  <2> QED
    BY <2>3, <2>4
<1> QED
  BY <1>5, <1>7, <1>8, <1>9, <1>11, <1>12 DEF ChatInv

LEMMA ChatTypes ==
    ASSUME Types
    PROVE  /\ kinds \in Seq(Kind) /\ Len(kinds) \in Nat /\ DOMAIN kinds = 1..Len(kinds)
           /\ dispatched \in 0..Len(kinds) /\ seen \subseteq DOMAIN kinds
BY DEF Types, TypeOK

LEMMA StartPollKeeps == ASSUME Inv, StartPoll PROVE ChatInv'
<1> USE DEF Inv
<1>1. /\ UNCHANGED <<accepted, faults, kinds, dispatched, seen>>
      /\ poll = Rest /\ poll' = [Rest EXCEPT !.at = "next", !.todo = Fresh]
  BY DEF StartPoll, runtimeVars, ledgerVars
<1>2. poll.at = "rest" /\ poll'.at = "next" /\ poll'.todo = Fresh /\ poll'.batch = {}
  BY <1>1 DEF Rest
<1>3. \A n : IsCommand(n) <=> IsCommand(n)'
  BY <1>1 DEF IsCommand
<1>4. Sources' /\ SeenShown' /\ SeenFresh' /\ ContextComplete' /\ AtSound'
  BY <1>1, <1>2, <1>3 DEF ChatInv, Sources, SeenShown, SeenFresh, AtSound, ContextComplete,
     Shown, Reaches, IsCommand
<1>5. PollSound'
  BY <1>1, <1>2, ChatTypes DEF ChatInv, Sources, PollSound, Fresh
<1>6. \A n \in DOMAIN kinds : Due(n) <= Due(n)'
  BY <1>1, <1>2 DEF Due
<1>7. CountSound'
  BY <1>1, <1>6, CountsKept
<1> QED
  BY <1>4, <1>5, <1>7 DEF ChatInv

(* The dispatch mark passes a segment that needs no more. *)
LEMMA NextSegmentKeeps ==
    ASSUME Inv, NextSegment, UNCHANGED <<accepted, faults, kinds, seen>>,
           poll.at \in {"next", "marked"}, poll.todo # {}
    PROVE  ChatInv'
<1> USE DEF Inv
<1>1. dispatched' = Last /\ poll' = [Rest EXCEPT !.at = "next", !.todo = poll.todo \ Current]
  BY DEF NextSegment, DispatchedNow
<1>2. poll'.at = "next" /\ poll'.todo = poll.todo \ Current /\ poll'.batch = {}
  BY <1>1 DEF Rest
<1>3. \A n : IsCommand(n) <=> IsCommand(n)'
  BY DEF IsCommand
<1>4. PICK last \in dispatched..Len(kinds) :
          poll.todo = (dispatched + 1)..last /\ \A i \in accepted : i.source <= last
  BY DEF ChatInv, PollSound
<1>5. Last \in (dispatched + 1)..last /\ Current = (dispatched + 1)..Last
  BY <1>4, NextIs DEF ChatInv
<1>6. Sources' /\ SeenShown' /\ ContextComplete' /\ AtSound'
  BY <1>2, <1>3 DEF ChatInv, Sources, SeenShown, AtSound, ContextComplete, Shown, IsCommand
<1>7. PollSound'
  <2>1. poll'.todo = (Last + 1)..last
    BY <1>2, <1>4, <1>5, ChatTypes
  <2>2. last \in Last..Len(kinds)
    BY <1>4, <1>5, ChatTypes
  <2> QED
    BY <1>1, <1>4, <2>1, <2>2 DEF PollSound
<1>8. SeenFresh'
  BY <1>1, <1>3, <1>4, <1>5, ChatTypes DEF ChatInv, SeenFresh, Reaches
<1>9. \A n \in DOMAIN kinds : Due(n) <= Due(n)'
  BY <1>2 DEF Due
<1>10. CountSound'
  BY <1>9, CountsKept
<1> QED
  BY <1>6, <1>7, <1>8, <1>10 DEF ChatInv

LEMMA ReadTranscriptKeeps == ASSUME Inv, ReadTranscript PROVE ChatInv'
<1> USE DEF Inv
<1>1. /\ UNCHANGED <<accepted, faults, kinds, dispatched, seen>>
      /\ poll.at = "next" /\ poll.todo # {} /\ ~CommandNext
      /\ poll' = [poll EXCEPT !.at = "prompt",
                              !.batch = IF Unseen(Last) # {} THEN Unseen(Last) ELSE Current]
  BY DEF ReadTranscript, AtSegment, runtimeVars, ledgerVars
<1>2. /\ poll'.at = "prompt" /\ poll'.todo = poll.todo
      /\ poll'.batch = IF Unseen(Last) # {} THEN Unseen(Last) ELSE Current
  BY <1>1 DEF Types, TypeOK, Poll
<1>3. Current' = Current /\ Last' = Last /\ (CommandNext <=> CommandNext')
      /\ \A n : IsCommand(n) <=> IsCommand(n)'
  BY <1>1, <1>2, KeptTerms
<1>4. PICK last \in dispatched..Len(kinds) :
          poll.todo = (dispatched + 1)..last /\ \A i \in accepted : i.source <= last
  BY <1>1 DEF ChatInv, PollSound
<1>5. /\ Last \in (dispatched + 1)..last /\ Current = (dispatched + 1)..Last
      /\ \A k \in Current : ~IsCommand(k)
      /\ \A s \in Last..last : Reaches(Last, s) => s = Last
  BY <1>1, <1>4, NextIs DEF ChatInv
<1>6. Sources' /\ SeenShown' /\ SeenFresh' /\ ContextComplete' /\ PollSound'
  BY <1>1, <1>2, <1>3 DEF ChatInv, Sources, SeenShown, SeenFresh, PollSound, ContextComplete,
     Shown, Reaches, IsCommand
<1>7. Unseen(Last) = {} => IsSource(Last)
  <2> SUFFICES ASSUME Unseen(Last) = {} PROVE IsSource(Last)
    OBVIOUS
  <2>1. Last \in seen /\ Last > dispatched /\ ~IsCommand(Last)
    BY <1>4, <1>5, ChatTypes DEF Unseen
  <2>2. PICK i \in accepted : Reaches(Last, i.source)
    BY <2>1 DEF ChatInv, SeenFresh
  <2>3. i.source \in Last..last
    BY <1>4, <1>5, <2>2, ChatTypes DEF ChatInv, Sources, Reaches
  <2>4. i.source = Last
    BY <1>5, <2>2, <2>3
  <2> QED
    BY <2>4 DEF IsSource
<1>8. AtSound'
  <2>1. ~CommandNext'
    BY <1>1, <1>3
  <2>2. poll'.batch \subseteq 1..Last
    BY <1>2, <1>4, <1>5, ChatTypes DEF Unseen
  <2>3. Unseen(Last) \subseteq poll'.batch
    BY <1>2
  <2>4. poll'.batch \cap seen = {} \/ IsSource(Last)
    BY <1>2, <1>7 DEF Unseen
  <2>5. PromptSound'
    BY <1>1, <1>3, <2>1, <2>2, <2>3, <2>4 DEF PromptSound, Unseen, IsSource
  <2> QED
    BY <1>1, <1>2, <2>5 DEF AtSound
<1>9. \A n \in DOMAIN kinds : Due(n) <= Due(n)'
  BY <1>1, <1>2 DEF Due
<1>10. CountSound'
  BY <1>1, <1>9, CountsKept
<1> QED
  BY <1>6, <1>8, <1>10 DEF ChatInv

LEMMA MarkSeenKeeps == ASSUME Inv, MarkSeen PROVE ChatInv'
<1> USE DEF Inv
<1>1. /\ UNCHANGED <<accepted, faults, kinds, dispatched>>
      /\ poll.at = "accepted"
      /\ seen' = seen \cup (IF CommandNext THEN {Last} ELSE 1..Last)
      /\ poll' = [poll EXCEPT !.at = "marked"]
  BY DEF MarkSeen, SeenNow, runtimeVars
<1>2. poll'.at = "marked" /\ poll'.todo = poll.todo
  BY <1>1 DEF Types, TypeOK, Poll
<1>3. poll.todo # {} /\ IsSource(Last)
  BY <1>1 DEF ChatInv, AtSound
<1>4. \A n : IsCommand(n) <=> IsCommand(n)'
  BY <1>1 DEF IsCommand
<1>5. PICK last \in dispatched..Len(kinds) :
          poll.todo = (dispatched + 1)..last /\ \A i \in accepted : i.source <= last
  BY <1>1 DEF ChatInv, PollSound
<1>6. /\ Last \in (dispatched + 1)..last /\ Current = (dispatched + 1)..Last
      /\ ~CommandNext => \A k \in Current : ~IsCommand(k)
  BY <1>1, <1>3, <1>5, NextIs DEF ChatInv
<1>7. PICK j \in accepted : j.source = Last
  BY <1>3 DEF IsSource
<1>8. Sources' /\ ContextComplete' /\ PollSound' /\ AtSound'
  BY <1>1, <1>2, <1>3, <1>4 DEF ChatInv, Sources, PollSound, AtSound, ContextComplete, IsCommand
<1>9. SeenShown'
  <2> SUFFICES ASSUME NEW n \in seen', ~IsCommand(n) PROVE Shown(n)
    BY <1>1, <1>4 DEF SeenShown, Shown
  <2>1. CASE n \in seen
    BY <2>1 DEF ChatInv, SeenShown
  <2>2. CASE n \notin seen
    <3>1. ~CommandNext /\ n \in 1..Last
      BY <1>1, <2>2 DEF CommandNext
    <3>2. ~j.command
      BY <1>7, <3>1 DEF ChatInv, Sources, CommandNext
    <3> QED
      BY <1>7, <3>1, <3>2 DEF ChatInv, ContextComplete, Shown
  <2> QED
    BY <2>1, <2>2
<1>10. SeenFresh'
  <2> SUFFICES ASSUME NEW n \in seen', n > dispatched, ~IsCommand(n)
               PROVE  \E i \in accepted : Reaches(n, i.source)
    BY <1>1, <1>4 DEF SeenFresh, Reaches
  <2>1. CASE n \in seen
    BY <2>1 DEF ChatInv, SeenFresh
  <2>2. CASE n \notin seen
    <3>1. ~CommandNext /\ n \in 1..Last
      BY <1>1, <2>2 DEF CommandNext
    <3>2. n..Last \subseteq Current
      BY <1>5, <1>6, <3>1, ChatTypes
    <3> QED
      BY <1>6, <1>7, <3>1, <3>2 DEF Reaches
  <2> QED
    BY <2>1, <2>2
<1>11. \A n \in DOMAIN kinds : Due(n) <= Due(n)'
  <2> SUFFICES ASSUME NEW n \in DOMAIN kinds, Due(n) = 1 PROVE Due(n)' = 1
    BY DEF Due
  <2>1. n \in seen \/ (~CommandNext /\ n <= Last)
    BY DEF Due
  <2>2. n \in seen'
    BY <1>1, <1>5, <1>6, <2>1, ChatTypes
  <2> QED
    BY <2>2 DEF Due
<1>12. CountSound'
  BY <1>1, <1>11, CountsKept
<1> QED
  BY <1>8, <1>9, <1>10, <1>12 DEF ChatInv

(* What the poll hands over at this point. *)
LEMMA SegmentToAccept ==
    ASSUME Inv, AcceptSegment
    PROVE  /\ poll.at \in {"next", "prompt"} /\ poll.todo # {}
           /\ CommandNext => poll.batch = {}
           /\ ~CommandNext => PromptSound
           /\ poll.batch \subseteq 1..Last
           /\ \E last \in dispatched..Len(kinds) :
                 /\ poll.todo = (dispatched + 1)..last /\ Last \in (dispatched + 1)..last
                 /\ \A i \in accepted : i.source <= last
<1> USE DEF Inv
<1>1. poll.at \in {"next", "prompt"} /\ poll.todo # {}
  BY DEF AcceptSegment, AtSegment, ChatInv, AtSound
<1>2. poll.at = "prompt" => PromptSound /\ ~CommandNext
  BY DEF ChatInv, AtSound, PromptSound
<1>3. poll.at = "next" => CommandNext /\ poll.batch = {}
  BY DEF AcceptSegment, AtSegment, ChatInv, AtSound
<1>4. PICK last \in dispatched..Len(kinds) :
          poll.todo = (dispatched + 1)..last /\ \A i \in accepted : i.source <= last
  BY <1>1 DEF ChatInv, PollSound
<1>5. Last \in (dispatched + 1)..last
  BY <1>1, <1>4, NextIs DEF ChatInv
<1>6. poll.batch \subseteq 1..Last
  BY <1>1, <1>2, <1>3 DEF PromptSound
<1> QED
  BY <1>1, <1>2, <1>3, <1>4, <1>5, <1>6

LEMMA AcceptSegmentKeeps ==
    ASSUME Inv, AcceptSegment
    PROVE  ChatInv' /\ IsFiniteSet(accepted')
<1> USE DEF Inv
<1> DEFINE i == [source |-> Last, command |-> CommandNext, batch |-> poll.batch]
<1>1. /\ UNCHANGED <<faults, kinds, dispatched, seen>>
      /\ poll' = [poll EXCEPT !.at = "accepted"]
      /\ IF \E j \in accepted : j.source = Last
         THEN accepted' = accepted
         ELSE accepted' = accepted \cup {i}
  BY DEF AcceptSegment, Accept, ledgerVars
<1>2. poll'.at = "accepted" /\ poll'.todo = poll.todo
  BY <1>1 DEF Types, TypeOK, Poll
<1>3. Last' = Last /\ (CommandNext <=> CommandNext') /\ \A n : IsCommand(n) <=> IsCommand(n)'
  BY <1>1, <1>2, KeptTerms
<1>4. /\ poll.at \in {"next", "prompt"} /\ poll.todo # {}
      /\ CommandNext => poll.batch = {}
      /\ ~CommandNext => PromptSound
      /\ poll.batch \subseteq 1..Last
  BY SegmentToAccept
<1>5. PICK last \in dispatched..Len(kinds) :
          /\ poll.todo = (dispatched + 1)..last /\ Last \in (dispatched + 1)..last
          /\ \A j \in accepted : j.source <= last
  BY SegmentToAccept
<1>6. i.source = Last /\ i.batch = poll.batch /\ i.command = CommandNext
  OBVIOUS
<1>7. accepted \subseteq accepted' /\ accepted' \subseteq accepted \cup {i}
  BY <1>1
<1>8. IsSource(Last)'
  BY <1>1, <1>3, <1>6 DEF IsSource
<1> HIDE DEF i
<1>9. Sources'
  <2>1. ASSUME NEW j \in accepted'
        PROVE  /\ j.source \in DOMAIN kinds
               /\ j.command => IsCommand(j.source)
               /\ j.batch \subseteq 1..j.source
    <3>1. CASE j \in accepted
      BY <3>1 DEF ChatInv, Sources
    <3>2. CASE j = i
      BY <1>4, <1>5, <1>6, <3>2, ChatTypes DEF CommandNext
    <3> QED
      BY <1>7, <3>1, <3>2
  <2> QED
    BY <1>1, <1>3, <2>1 DEF Sources
<1>10. \A n : Shown(n) => Shown(n)'
  BY <1>7 DEF Shown
<1>11. SeenShown'
  BY <1>1, <1>3, <1>10 DEF ChatInv, SeenShown
<1>12. SeenFresh'
  BY <1>1, <1>3, <1>7 DEF ChatInv, SeenFresh, Reaches
<1>13. PollSound'
  <2>1. \A j \in accepted' : j.source <= last
    BY <1>5, <1>6, <1>7, ChatTypes
  <2> QED
    BY <1>1, <1>2, <1>5, <2>1 DEF PollSound
<1>14. ContextComplete'
  <2> SUFFICES ASSUME NEW j \in accepted', ~j.command, NEW n \in 1..j.source
               PROVE  IsCommand(n) \/ Shown(n)'
    BY <1>3 DEF ContextComplete, Shown
  <2>1. CASE j \in accepted
    BY <1>10, <2>1 DEF ChatInv, ContextComplete, Shown
  <2>2. CASE j \notin accepted
    <3>1. j = i /\ i \in accepted'
      BY <1>7, <2>2
    <3>2. PromptSound /\ n \in 1..Last
      BY <1>4, <1>6, <3>1
    <3>3. CASE n \in seen
      BY <1>10, <3>3 DEF ChatInv, SeenShown
    <3>4. CASE n \notin seen
      BY <1>6, <3>1, <3>2, <3>4 DEF PromptSound, Unseen, Shown
    <3> QED
      BY <3>3, <3>4
  <2> QED
    BY <2>1, <2>2
<1>15. AtSound'
  BY <1>2, <1>4, <1>8 DEF AtSound
<1>16. ASSUME NEW n \in DOMAIN kinds PROVE Due(n) <= Due(n)'
  BY <1>1, <1>4 DEF Due
<1>17. CASE \E j \in accepted : j.source = Last
  <2>1. accepted' = accepted
    BY <1>1, <1>17
  <2>2. CountSound'
    BY <1>1, <1>16, <2>1, CountsKept
  <2> QED
    BY <1>9, <1>11, <1>12, <1>13, <1>14, <1>15, <2>1, <2>2 DEF ChatInv, Types
<1>18. CASE ~\E j \in accepted : j.source = Last
  <2>1. accepted' = accepted \cup {i} /\ i \notin accepted
    BY <1>1, <1>6, <1>18
  <2>2. CountSound'
    <3> SUFFICES ASSUME NEW n \in DOMAIN kinds
                 PROVE  Cardinality(Showing(n)') <= faults + Due(n)'
      BY <1>1 DEF CountSound
    <3>1. IsFiniteSet(Showing(n)) /\ Cardinality(Showing(n)) \in Nat
      BY FS_Subset, FS_CardinalityType DEF Types, Showing
    <3>2. Cardinality(Showing(n)) <= faults + Due(n)
      BY DEF ChatInv, CountSound
    <3>3. faults \in Nat /\ Due(n) \in 0..1 /\ Due(n)' \in 0..1 /\ Due(n) <= Due(n)'
      BY <1>16, FaultsCount DEF Due
    <3>4. CASE n \in i.batch
      <4>1. ~CommandNext /\ n \in 1..Last
        BY <1>4, <1>6, <3>4
      <4>2. n \notin seen
        BY <1>4, <1>6, <1>18, <3>4, <4>1 DEF PromptSound, IsSource
      <4>3. Due(n) = 0
        BY <1>4, <4>2 DEF Due
      <4>4. Due(n)' = 1
        <5>1. n <= Last'
          BY <1>3, <1>5, <4>1, ChatTypes
        <5> QED
          BY <1>2, <1>3, <4>1, <5>1 DEF Due
      <4>5. Showing(n)' = Showing(n) \cup {i} /\ i \notin Showing(n)
        BY <2>1, <3>4 DEF Showing
      <4>6. Cardinality(Showing(n) \cup {i}) = Cardinality(Showing(n)) + 1
        BY <3>1, <4>5, FS_AddElement
      <4>7. Cardinality(Showing(n)') = Cardinality(Showing(n)) + 1
        BY <4>5, <4>6
      <4> QED
        BY <3>1, <3>2, <3>3, <4>3, <4>4, <4>7
    <3>5. CASE n \notin i.batch
      <4>1. Showing(n)' = Showing(n)
        BY <2>1, <3>5 DEF Showing
      <4>2. Cardinality(Showing(n)') = Cardinality(Showing(n))
        BY <4>1
      <4> QED
        BY <3>1, <3>2, <3>3, <4>2
    <3> QED
      BY <3>4, <3>5
  <2>3. IsFiniteSet(accepted')
    BY <2>1, FS_AddElement DEF Types
  <2> QED
    BY <1>9, <1>11, <1>12, <1>13, <1>14, <1>15, <2>2, <2>3 DEF ChatInv
<1> QED
  BY <1>17, <1>18

LEMMA ChatStep == ASSUME Inv, [Next]_vars PROVE ChatInv'
<1> USE DEF Inv
<1>1. faults \in Nat
  BY FaultsCount
<1>2. CASE \E kind \in Kind : Store(kind)
  BY <1>2, StoreKeeps
<1>3. CASE StartPoll
  BY <1>3, StartPollKeeps
<1>4. CASE PassOver
  BY <1>4, NextSegmentKeeps DEF PassOver, AtSegment, runtimeVars
<1>5. CASE ReadTranscript
  BY <1>5, ReadTranscriptKeeps
<1>6. CASE AcceptSegment
  BY <1>6, AcceptSegmentKeeps
<1>7. CASE MarkSeen
  BY <1>7, MarkSeenKeeps
<1>8. CASE MarkDispatched
  <2>1. poll.at = "marked" /\ poll.todo # {}
    BY <1>8 DEF MarkDispatched, ChatInv, AtSound
  <2> QED
    BY <1>8, <2>1, NextSegmentKeeps DEF MarkDispatched, runtimeVars
<1>9. CASE EndPoll
  BY <1>9, PollGone DEF EndPoll, runtimeVars, ledgerVars
<1>10. CASE PollFails
  BY <1>10, PollGone DEF PollFails, Fault, runtimeVars, ledgerVars
<1>11. CASE Crash
  BY <1>11, PollGone DEF Crash, Fault, ledgerVars
<1>12. CASE \/ GrowOld \/ StopBridge \/ BridgeStep
            \/ (RuntimeStep /\ UNCHANGED bridgeVars) \/ UNCHANGED vars
  <2>1. /\ UNCHANGED <<accepted, kinds, dispatched, seen, poll>>
        /\ faults' = faults \/ (faults < MaxFaults /\ faults' = faults + 1)
    <3>1. CASE GrowOld \/ StopBridge \/ UNCHANGED vars
      BY <3>1 DEF GrowOld, StopBridge, vars, runtimeVars, ledgerVars
    <3>2. CASE BridgeStep
      BY <3>2 DEF BridgeStep, StopRuntime, Stop, CloseBridge, StartBridge, SocketOpens, Start,
         runtimeVars, ledgerVars
    <3>3. CASE RuntimeStep /\ UNCHANGED bridgeVars
      BY <3>3 DEF RuntimeStep, CloseDatabases, TimerFires, Integrate, EndIntake, EndTick,
         EndCommand, Fault, bridgeVars, ledgerVars
    <3> QED
      BY <1>12, <3>1, <3>2, <3>3
  <2> QED
    BY <1>1, <2>1, QuietStep
<1>13. CASE FailTick /\ UNCHANGED bridgeVars
  <2>1. UNCHANGED <<accepted, kinds, dispatched, seen, poll>> /\ faults' = faults + 1
    BY <1>13 DEF FailTick, Fault, bridgeVars, ledgerVars
  <2> QED
    BY <1>1, <2>1, QuietStep
<1> QED
  BY <1>2, <1>3, <1>4, <1>5, <1>6, <1>7, <1>8, <1>9, <1>10, <1>11, <1>12, <1>13
     DEF Next, PollStep
-------------------------------------------------------------------------------
(* Types. *)

LEMMA CanFault == ASSUME Types PROVE
    /\ faults \in 0..MaxFaults
    /\ Fault => faults' \in 0..MaxFaults
<1>1. faults \in 0..MaxFaults
  BY DEF Types, TypeOK, RuntimeTypeOK
<1> QED
  BY <1>1, RelayRuntimeAssumption DEF Fault

LEMMA RuntimeTypes == ASSUME Inv, [Next]_vars PROVE RuntimeTypeOK' /\ IsFiniteSet(accepted')
<1> USE DEF Inv
<1>1. RuntimeTypeOK /\ IsFiniteSet(accepted)
  BY DEF Types, TypeOK
<1>2. CASE AcceptSegment
  <2> DEFINE i == [source |-> Last, command |-> CommandNext, batch |-> poll.batch]
  <2>1. i \in Intake
    <3>1. Last \in Nat
      BY <1>2, SegmentToAccept, ChatTypes
    <3>2. poll.batch \in SUBSET Nat
      BY <1>2, SegmentToAccept
    <3>3. CommandNext \in BOOLEAN
      BY DEF CommandNext, IsCommand
    <3> QED
      BY <3>1, <3>2, <3>3 DEF Intake
  <2>2. /\ \/ accepted' = accepted /\ queue' = queue
           \/ accepted' = accepted \cup {i} /\ queue' = Append(queue, i)
        /\ Wake /\ UNCHANGED <<phase, commands, faults>>
    BY <1>2 DEF AcceptSegment, Accept
  <2> HIDE DEF i
  <2>3. accepted \subseteq accepted' /\ accepted' \subseteq Intake
    BY <1>1, <2>1, <2>2 DEF RuntimeTypeOK
  <2>4. queue' \in Seq(accepted')
    <3>1. queue \in Seq(accepted')
      BY <1>1, <2>3, SeqMonotonic DEF RuntimeTypeOK
    <3> QED
      BY <2>2, <3>1
  <2>5. IsFiniteSet(accepted')
    BY <1>2, AcceptSegmentKeeps
  <2> QED
    BY <1>1, <2>2, <2>3, <2>4, <2>5 DEF RuntimeTypeOK, Wake
<1>3. CASE UNCHANGED <<accepted, queue>> /\ ~AcceptSegment /\ ~Integrate
  <2> SUFFICES /\ phase' \in {"none", "starting", "running", "draining tick",
                              "draining commands"}
               /\ tick' \in {"none", "intake", "outbound"}
               /\ commands' \subseteq accepted
               /\ faults' \in 0..MaxFaults
    BY <1>1, <1>3 DEF RuntimeTypeOK
  <2>1. CASE (\E kind \in Kind : Store(kind)) \/ GrowOld \/ StartPoll \/ PollFails \/ StopBridge
    BY <1>1, <2>1, CanFault DEF Store, GrowOld, StartPoll, PollFails, StopBridge, runtimeVars,
       RuntimeTypeOK
  <2>2. CASE PollStep
    BY <1>1, <1>3, <2>2 DEF PollStep, PassOver, ReadTranscript, MarkSeen, MarkDispatched, EndPoll,
       runtimeVars, RuntimeTypeOK
  <2>3. CASE BridgeStep
    BY <1>1, <2>3 DEF BridgeStep, StopRuntime, Stop, Drain, CloseBridge, StartBridge,
       SocketOpens, Start, runtimeVars, RuntimeTypeOK
  <2>4. CASE Crash
    BY <1>1, <2>4, CanFault DEF Crash
  <2>5. CASE RuntimeStep
    BY <1>1, <1>3, <2>5, CanFault DEF RuntimeStep, CloseDatabases, TimerFires, Wake, EndIntake,
       EndTick, PhaseAfter, EndCommand, RuntimeTypeOK
  <2>6. CASE FailTick
    BY <1>1, <2>6, CanFault DEF FailTick, PhaseAfter, RuntimeTypeOK
  <2>7. CASE UNCHANGED vars
    BY <1>1, <2>7 DEF vars, runtimeVars, RuntimeTypeOK
  <2> QED
    BY <2>1, <2>2, <2>3, <2>4, <2>5, <2>6, <2>7 DEF Next
<1>4. CASE Integrate
  <2>1. /\ queue \in Seq(accepted) /\ queue # <<>> /\ queue' = Tail(queue)
        /\ commands' = {i \in {Head(queue)} : i.command}
        /\ UNCHANGED <<phase, tick, accepted, faults>>
    BY <1>1, <1>4 DEF Integrate, Claimable, RuntimeTypeOK
  <2>2. queue' \in Seq(accepted) /\ Head(queue) \in accepted
    BY <2>1
  <2>3. commands' \subseteq accepted
    BY <2>1, <2>2
  <2> QED
    BY <1>1, <2>1, <2>2, <2>3 DEF RuntimeTypeOK
<1>5. AcceptSegment \/ Integrate \/ UNCHANGED <<accepted, queue>>
  BY DEF Next, vars, Store, GrowOld, StartPoll, PollStep, PassOver, ReadTranscript, MarkSeen,
     MarkDispatched, EndPoll, PollFails, BridgeStep, StopRuntime, Stop, CloseBridge, StartBridge,
     SocketOpens, Start, StopBridge, Crash, RuntimeStep, CloseDatabases, TimerFires, EndIntake,
     EndTick, EndCommand, FailTick, runtimeVars
<1> QED
  BY <1>2, <1>3, <1>4, <1>5

LEMMA Pieces ==
    ASSUME Inv, poll.at # "rest", poll.todo # {}
    PROVE  Last \in DOMAIN kinds /\ Current \subseteq DOMAIN kinds
<1> USE DEF Inv
<1>1. PICK last \in dispatched..Len(kinds) : poll.todo = (dispatched + 1)..last
  BY DEF ChatInv, PollSound
<1>2. Last \in (dispatched + 1)..last /\ Current = (dispatched + 1)..Last
  BY <1>1, NextIs DEF ChatInv
<1> QED
  BY <1>1, <1>2, ChatTypes

LEMMA BridgeTypes == ASSUME Inv, [Next]_vars PROVE TypeOK'
<1> USE DEF Inv
<1>1. /\ RuntimeTypeOK'
      /\ bridge \in {"up", "stopping", "down"} /\ young \in BOOLEAN
      /\ kinds \in Seq(Kind) /\ Len(kinds) <= MaxMessages /\ DOMAIN kinds = 1..Len(kinds)
      /\ dispatched \in 0..Len(kinds) /\ seen \subseteq DOMAIN kinds
      /\ poll \in Poll /\ stops \in 0..MaxStops
  BY RuntimeTypes, ChatTypes DEF Types, TypeOK
<1>2. Len(kinds) \in Nat /\ DOMAIN kinds \subseteq 1..MaxMessages
  BY <1>1, WhatsAppAssumption
<1>3. Rest \in Poll
  BY DEF Rest, Poll
<1>4. poll.todo \subseteq 1..MaxMessages
  BY <1>1 DEF Poll
<1>5. poll.at # "rest" /\ poll.todo # {} => Last \in DOMAIN kinds /\ Current \subseteq DOMAIN kinds
  BY Pieces
<1>6. ASSUME NEW kind \in Kind, Store(kind) PROVE TypeOK'
  <2>1. kinds' \in Seq(Kind) /\ Len(kinds') = Len(kinds) + 1 /\ DOMAIN kinds' = 1..Len(kinds')
        /\ Len(kinds) < MaxMessages
    BY <1>1, <1>6 DEF Store
  <2>2. dispatched' \in 0..Len(kinds') /\ seen' \subseteq DOMAIN kinds'
        /\ Len(kinds') <= MaxMessages
    BY <1>1, <1>2, <1>6, <2>1, WhatsAppAssumption DEF Store
  <2> QED
    BY <1>1, <1>6, <2>1, <2>2 DEF TypeOK, Store
<1>7. CASE PassOver \/ MarkDispatched
  <2>1. poll.at # "rest" /\ poll.todo # {}
    BY <1>7 DEF PassOver, MarkDispatched, AtSegment, ChatInv, AtSound
  <2>2. dispatched' = Last /\ poll' = [Rest EXCEPT !.at = "next", !.todo = poll.todo \ Current]
        /\ UNCHANGED <<bridge, kinds, seen, young, stops>>
    BY <1>7 DEF PassOver, MarkDispatched, NextSegment, DispatchedNow
  <2>3. poll' \in Poll
    BY <1>4, <2>2 DEF Rest, Poll
  <2>4. dispatched' \in 0..Len(kinds')
    BY <1>1, <1>5, <2>1, <2>2
  <2> QED
    BY <1>1, <2>2, <2>3, <2>4 DEF TypeOK
<1>8. CASE ReadTranscript
  <2>1. poll.at # "rest" /\ poll.todo # {}
    BY <1>8 DEF ReadTranscript, AtSegment
  <2>2. Unseen(Last) \subseteq 1..MaxMessages /\ Current \subseteq 1..MaxMessages
    BY <1>1, <1>2, <1>5, <2>1 DEF Unseen
  <2>3. poll' \in Poll
    BY <1>1, <1>8, <2>2 DEF ReadTranscript, Poll
  <2> QED
    BY <1>1, <1>8, <2>3 DEF TypeOK, ReadTranscript, ledgerVars
<1>9. CASE MarkSeen
  <2>1. poll.at # "rest" /\ poll.todo # {}
    BY <1>9 DEF MarkSeen, ChatInv, AtSound
  <2>2. seen' \subseteq DOMAIN kinds
    BY <1>1, <1>5, <1>9, <2>1 DEF MarkSeen, SeenNow
  <2>3. poll' \in Poll
    BY <1>1, <1>9 DEF MarkSeen, Poll
  <2> QED
    BY <1>1, <1>9, <2>2, <2>3 DEF TypeOK, MarkSeen
<1>10. CASE AcceptSegment
  <2>1. poll' \in Poll
    BY <1>1, <1>10 DEF AcceptSegment, Poll
  <2> QED
    BY <1>1, <1>10, <2>1 DEF TypeOK, AcceptSegment, ledgerVars
<1>11. CASE StartPoll
  <2>1. Fresh \subseteq 1..MaxMessages
    BY <1>1, <1>2 DEF Fresh
  <2>2. poll' \in Poll
    BY <1>11, <2>1 DEF StartPoll, Rest, Poll
  <2> QED
    BY <1>1, <1>11, <2>2 DEF TypeOK, StartPoll, ledgerVars
<1>12. CASE EndPoll \/ PollFails \/ Crash
  BY <1>1, <1>3, <1>12 DEF TypeOK, EndPoll, PollFails, Crash, ledgerVars
<1>13. CASE GrowOld \/ BridgeStep \/ StopBridge
  <2>1. /\ UNCHANGED <<kinds, dispatched, seen, poll>>
        /\ bridge' \in {"up", "stopping", "down"}
    BY <1>1, <1>13 DEF GrowOld, BridgeStep, StopRuntime, CloseBridge, StartBridge, SocketOpens,
       StopBridge, ledgerVars
  <2>2. young' \in BOOLEAN
    <3>1. CASE GrowOld
      BY <3>1 DEF GrowOld
    <3>2. CASE BridgeStep \/ StopBridge
      BY <1>1, <3>2 DEF BridgeStep, StopRuntime, CloseBridge, StartBridge, SocketOpens, StopBridge
    <3> QED
      BY <1>13, <3>1, <3>2
  <2>3. stops' \in 0..MaxStops
    BY <1>1, <1>13, WhatsAppAssumption DEF GrowOld, BridgeStep, StopRuntime, CloseBridge,
       StartBridge, SocketOpens, StopBridge
  <2> QED
    BY <1>1, <2>1, <2>2, <2>3 DEF TypeOK
<1>14. CASE UNCHANGED bridgeVars
  BY <1>1, <1>14 DEF TypeOK, bridgeVars, ledgerVars
<1>15. CASE UNCHANGED vars
  BY <1>1, <1>15 DEF TypeOK, vars, ledgerVars
<1> QED
  BY <1>6, <1>7, <1>8, <1>9, <1>10, <1>11, <1>12, <1>13, <1>14, <1>15 DEF Next, PollStep
-------------------------------------------------------------------------------
(* What closes is at rest. *)

LEMMA RestStep == ASSUME Inv, [Next]_vars PROVE RestInv'
<1> USE DEF Inv
<1>1. /\ phase = "none" => tick = "none" /\ commands = {}
      /\ bridge = "down" => phase = "none" /\ poll = Rest
      /\ phase = "draining commands" => tick = "none"
  BY DEF RestInv, ClosedIsAtRest
<1>0. poll.at # "rest" => poll # Rest
  BY DEF Rest
<1>2. CASE (\E kind \in Kind : Store(kind)) \/ GrowOld \/ StartPoll \/ StopBridge
  BY <1>1, <1>2 DEF RestInv, ClosedIsAtRest, Store, GrowOld, StartPoll, StopBridge, runtimeVars
<1>3. CASE PollStep /\ ~AcceptSegment
  BY <1>0, <1>1, <1>3 DEF RestInv, ClosedIsAtRest, PollStep, PassOver, ReadTranscript, MarkSeen,
     MarkDispatched, EndPoll, AtSegment, runtimeVars
<1>4. CASE AcceptSegment
  <2>1. phase \in {"starting", "running"}
    BY <1>4 DEF AcceptSegment, Accept, Closed
  <2>2. phase' = phase /\ bridge' = bridge
    BY <1>4 DEF AcceptSegment, Accept
  <2> QED
    BY <1>1, <2>1, <2>2 DEF RestInv, ClosedIsAtRest
<1>5. CASE PollFails \/ Crash
  BY <1>1, <1>5 DEF RestInv, ClosedIsAtRest, PollFails, Crash, runtimeVars
<1>6. CASE BridgeStep
  BY <1>1, <1>6 DEF RestInv, ClosedIsAtRest, BridgeStep, StopRuntime, Stop, Drain, Closed,
     CloseBridge, StartBridge, SocketOpens, Start, runtimeVars
<1>7. CASE (RuntimeStep \/ FailTick) /\ UNCHANGED bridgeVars
  BY <1>1, <1>7 DEF RestInv, ClosedIsAtRest, RuntimeStep, FailTick, CloseDatabases, TimerFires,
     Wake, Integrate, EndIntake, EndTick, PhaseAfter, EndCommand, bridgeVars
<1>8. CASE UNCHANGED vars
  BY <1>1, <1>8 DEF RestInv, ClosedIsAtRest, vars, runtimeVars
<1> QED
  BY <1>2, <1>3, <1>4, <1>5, <1>6, <1>7, <1>8 DEF Next

LEMMA Beginning == Init => Inv
<1> SUFFICES ASSUME Init PROVE Inv
  OBVIOUS
<1> USE DEF Init, RuntimeInit
<1>1. poll.at = "rest"
  BY DEF Rest
<1>2. TypeOK
  <2>1. Rest \in Poll
    BY DEF Rest, Poll
  <2>2. RuntimeTypeOK
    BY RelayRuntimeAssumption DEF RuntimeTypeOK
  <2>3. kinds \in Seq(Kind) /\ Len(kinds) = 0 /\ dispatched \in 0..Len(kinds)
    OBVIOUS
  <2>4. Len(kinds) <= MaxMessages /\ stops \in 0..MaxStops
    BY <2>3, WhatsAppAssumption
  <2>5. young \in BOOLEAN /\ seen \subseteq DOMAIN kinds /\ bridge \in {"up", "stopping", "down"}
    OBVIOUS
  <2> QED
    BY <2>1, <2>2, <2>3, <2>4, <2>5 DEF TypeOK
<1>3. Types
  BY <1>2, FS_EmptySet DEF Types
<1>4. ChatInv
  <2>1. CountSound
    BY DEF CountSound
  <2> QED
    BY <1>1, <2>1 DEF ChatInv, Sources, SeenShown, SeenFresh, PollSound, AtSound, ContextComplete
<1>5. RestInv
  BY DEF RestInv, ClosedIsAtRest
<1> QED
  BY <1>3, <1>4, <1>5 DEF Inv

LEMMA Keeping == Inv /\ [Next]_vars => Inv'
<1> SUFFICES ASSUME Inv, [Next]_vars PROVE Inv'
  OBVIOUS
<1> QED
  BY ChatStep, RuntimeTypes, BridgeTypes, RestStep DEF Inv, Types

LEMMA Invariance == Spec => []Inv
BY Beginning, Keeping, PTL DEF Spec

(* No tick, command or poll is under way when the databases are closed,      *)
(* however ticks, commands, failures and the orderly stop follow each other. *)
THEOREM ClosedSafe == Spec => []ClosedIsAtRest
<1>1. Inv => ClosedIsAtRest
  BY DEF Inv, RestInv
<1> QED
  BY <1>1, Invariance, PTL

(* The prompt that answers a message, with those before it, has all that was *)
(* said in the chat until then, for any number of messages and faults.       *)
THEOREM ContextSafe == Spec => []ContextComplete
<1>1. Inv => ContextComplete
  BY DEF Inv, ChatInv
<1> QED
  BY <1>1, Invariance, PTL

(* A message is in one prompt, and in one more for each crash or failure, at *)
(* most, for any number of messages and faults.                              *)
THEOREM OnceShown == Spec => []ShownOnce
<1>1. ASSUME Inv PROVE ShownOnce
  <2> SUFFICES ASSUME NEW n \in DOMAIN kinds
               PROVE  Cardinality(Showing(n)) <= 1 + faults
    BY DEF ShownOnce, Showing
  <2>1. Cardinality(Showing(n)) \in Nat
    BY <1>1, FS_Subset, FS_CardinalityType DEF Inv, Types, Showing
  <2>2. Cardinality(Showing(n)) <= faults + Due(n)
    BY <1>1 DEF Inv, ChatInv, CountSound
  <2>3. Due(n) \in 0..1 /\ faults \in Nat
    BY <1>1, FaultsCount DEF Due, Inv
  <2> QED
    BY <2>1, <2>2, <2>3
<1> QED
  BY <1>1, Invariance, PTL
================================================================================
