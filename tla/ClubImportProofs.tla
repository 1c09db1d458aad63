-------------------------- MODULE ClubImportProofs --------------------------
(***************************************************************************)
(* Theorems about ClubImport: whatever fails and wherever the process      *)
(* stops, a pending job stays in the queue and can be resumed, no event of *)
(* its club is forgotten, an event is imported with all its members, and a *)
(* completed job has imported everything.                                  *)
(***************************************************************************)
EXTENDS ClubImport, TLAPS

-----------------------------------------------------------------------------
(* Sequences and the sets of their elements. *)

LEMMA ToSetOfEmpty == ToSet(<<>>) = {}
BY DEF ToSet

LEMMA ToSetOfAppend ==
  ASSUME NEW S, NEW s \in Seq(S), NEW x \in S
  PROVE  Append(s, x) \in Seq(S) /\ ToSet(Append(s, x)) = ToSet(s) \cup {x}
<1>1. /\ Append(s, x) \in Seq(S) /\ Len(s) \in Nat
      /\ DOMAIN Append(s, x) = 1..(Len(s) + 1) /\ DOMAIN s = 1..Len(s)
      /\ \A i \in 1..Len(s) : Append(s, x)[i] = s[i]
      /\ Append(s, x)[Len(s) + 1] = x
  OBVIOUS
<1>2. \A i \in 1..(Len(s) + 1) : i \in 1..Len(s) \/ i = Len(s) + 1
  BY <1>1
<1>3. 1..Len(s) \subseteq 1..(Len(s) + 1) /\ Len(s) + 1 \in 1..(Len(s) + 1)
  BY <1>1
<1> QED BY <1>1, <1>2, <1>3 DEF ToSet

LEMMA ToSetOfConcat ==
  ASSUME NEW S, NEW s \in Seq(S), NEW t \in Seq(S)
  PROVE  s \o t \in Seq(S) /\ ToSet(s \o t) = ToSet(s) \cup ToSet(t)
<1>1. /\ s \o t \in Seq(S) /\ Len(s) \in Nat /\ Len(t) \in Nat
      /\ DOMAIN (s \o t) = 1..(Len(s) + Len(t))
      /\ DOMAIN s = 1..Len(s) /\ DOMAIN t = 1..Len(t)
      /\ \A i \in 1..Len(s) : (s \o t)[i] = s[i]
      /\ \A i \in 1..Len(t) : (s \o t)[Len(s) + i] = t[i]
  OBVIOUS
<1>2. ASSUME NEW i \in 1..(Len(s) + Len(t))
      PROVE  i \in 1..Len(s) \/ \E k \in 1..Len(t) : i = Len(s) + k
  <2>1. CASE i <= Len(s)
    BY <1>1, <2>1
  <2>2. CASE i > Len(s)
    <3>1. i - Len(s) \in 1..Len(t) /\ i = Len(s) + (i - Len(s))
      BY <1>1, <2>2
    <3> QED BY <3>1
  <2> QED BY <1>1, <2>1, <2>2
<1>3. 1..Len(s) \subseteq 1..(Len(s) + Len(t))
      /\ \A k \in 1..Len(t) : Len(s) + k \in 1..(Len(s) + Len(t))
  BY <1>1
<1>4. ToSet(s \o t) \subseteq ToSet(s) \cup ToSet(t)
  <2> SUFFICES ASSUME NEW i \in 1..(Len(s) + Len(t))
               PROVE  (s \o t)[i] \in ToSet(s) \cup ToSet(t)
    BY <1>1 DEF ToSet
  <2> QED BY <1>1, <1>2 DEF ToSet
<1>5. ToSet(s) \subseteq ToSet(s \o t)
  <2> SUFFICES ASSUME NEW i \in 1..Len(s) PROVE s[i] \in ToSet(s \o t)
    BY <1>1 DEF ToSet
  <2> QED BY <1>1, <1>3 DEF ToSet
<1>6. ToSet(t) \subseteq ToSet(s \o t)
  <2> SUFFICES ASSUME NEW k \in 1..Len(t) PROVE t[k] \in ToSet(s \o t)
    BY <1>1 DEF ToSet
  <2> QED BY <1>1, <1>3 DEF ToSet
<1> QED BY <1>1, <1>4, <1>5, <1>6

LEMMA HeadAndTail ==
  ASSUME NEW S, NEW s \in Seq(S), s # <<>>
  PROVE  /\ Head(s) \in S /\ Tail(s) \in Seq(S)
         /\ ToSet(s) = {Head(s)} \cup ToSet(Tail(s))
<1>1. /\ Head(s) \in S /\ Tail(s) \in Seq(S) /\ Len(s) \in Nat /\ Len(s) >= 1
      /\ Head(s) = s[1] /\ Len(Tail(s)) = Len(s) - 1
      /\ DOMAIN s = 1..Len(s) /\ DOMAIN Tail(s) = 1..(Len(s) - 1)
      /\ \A i \in 1..(Len(s) - 1) : Tail(s)[i] = s[i + 1]
  OBVIOUS
<1>2. ASSUME NEW i \in 1..Len(s)
      PROVE  i = 1 \/ \E k \in 1..(Len(s) - 1) : i = k + 1
  <2>1. CASE i > 1
    <3>1. i - 1 \in 1..(Len(s) - 1) /\ i = (i - 1) + 1
      BY <1>1, <2>1
    <3> QED BY <3>1
  <2> QED BY <2>1
<1>3. 1 \in 1..Len(s) /\ \A k \in 1..(Len(s) - 1) : k + 1 \in 1..Len(s)
  BY <1>1
<1>4. ToSet(s) \subseteq {Head(s)} \cup ToSet(Tail(s))
  <2> SUFFICES ASSUME NEW i \in 1..Len(s) PROVE s[i] \in {Head(s)} \cup ToSet(Tail(s))
    BY <1>1 DEF ToSet
  <2> QED BY <1>1, <1>2 DEF ToSet
<1>5. ToSet(Tail(s)) \subseteq ToSet(s)
  <2> SUFFICES ASSUME NEW k \in 1..(Len(s) - 1) PROVE Tail(s)[k] \in ToSet(s)
    BY <1>1 DEF ToSet
  <2> QED BY <1>1, <1>3 DEF ToSet
<1>6. Head(s) \in ToSet(s)
  BY <1>1, <1>3 DEF ToSet
<1> QED BY <1>1, <1>4, <1>5, <1>6

\* Taking the head from a sequence without repetitions, or appending a new
\* element to it.
LEMMA InjectiveTail ==
  ASSUME NEW S, NEW s \in Seq(S), s # <<>>, IsInjective(s)
  PROVE  IsInjective(Tail(s)) /\ ToSet(Tail(s)) = ToSet(s) \ {Head(s)}
<1>1. /\ Len(s) \in Nat /\ Len(s) >= 1
      /\ Head(s) = s[1]
      /\ DOMAIN s = 1..Len(s) /\ DOMAIN Tail(s) = 1..(Len(s) - 1)
      /\ \A i \in 1..(Len(s) - 1) : Tail(s)[i] = s[i + 1] /\ i + 1 \in 1..Len(s) /\ i + 1 # 1
      /\ 1 \in 1..Len(s)
  OBVIOUS
<1>2. \A i, k \in 1..Len(s) : s[i] = s[k] => i = k
  BY <1>1 DEF IsInjective
<1>3. IsInjective(Tail(s))
  <2> SUFFICES ASSUME NEW i \in 1..(Len(s) - 1), NEW k \in 1..(Len(s) - 1), Tail(s)[i] = Tail(s)[k]
               PROVE  i = k
    BY <1>1 DEF IsInjective
  <2>1. i + 1 = k + 1
    BY <1>1, <1>2
  <2> QED BY <1>1, <2>1
<1>4. Head(s) \notin ToSet(Tail(s))
  BY <1>1, <1>2 DEF ToSet
<1> QED BY <1>3, <1>4, HeadAndTail

LEMMA InjectiveAppend ==
  ASSUME NEW S, NEW s \in Seq(S), NEW x \in S, IsInjective(s), x \notin ToSet(s)
  PROVE  IsInjective(Append(s, x))
<1>1. /\ Len(s) \in Nat
      /\ DOMAIN Append(s, x) = 1..(Len(s) + 1) /\ DOMAIN s = 1..Len(s)
      /\ \A i \in 1..Len(s) : Append(s, x)[i] = s[i]
      /\ Append(s, x)[Len(s) + 1] = x
  OBVIOUS
<1>2. \A i \in 1..(Len(s) + 1) : i \in 1..Len(s) \/ i = Len(s) + 1
  BY <1>1
<1>3. \A i \in 1..Len(s) : s[i] # x
  BY <1>1 DEF ToSet
<1> QED BY <1>1, <1>2, <1>3 DEF IsInjective

\* The pages after the first k are the next page and those after it.
LEMMA NextPage ==
  ASSUME NEW a \in Seq(Seq(Events)), NEW k \in Nat, k < Len(a)
  PROVE  /\ a[k + 1] \in Seq(Events)
         /\ PagesAfter(a, k) = ToSet(a[k + 1]) \cup PagesAfter(a, k + 1)
<1>1. Len(a) \in Nat /\ k + 1 \in 1..Len(a)
  OBVIOUS
<1>2. a[k + 1] \in Seq(Events)
  BY <1>1
<1>3. \A i : i \in k + 1..Len(a) <=> i = k + 1 \/ i \in (k + 1) + 1..Len(a)
  BY <1>1
<1> QED BY <1>2, <1>3 DEF PagesAfter

LEMMA NoPageLeft ==
  ASSUME NEW a \in Seq(Seq(Events))
  PROVE  PagesAfter(a, Len(a)) = {}
<1>1. \A i : i \notin Len(a) + 1..Len(a)
  OBVIOUS
<1> QED BY <1>1 DEF PagesAfter

LEMMA PagesTyped ==
  ASSUME NEW a \in Seq(Seq(Events)), NEW k \in Nat
  PROVE  PagesAfter(a, k) \subseteq Events
<1> SUFFICES ASSUME NEW i \in k + 1..Len(a) PROVE ToSet(a[i]) \subseteq Events
  BY DEF PagesAfter
<1>1. a[i] \in Seq(Events)
  <2>1. i \in 1..Len(a)
    OBVIOUS
  <2> QED BY <2>1
<1> QED BY <1>1 DEF ToSet

-----------------------------------------------------------------------------
(* What each attempt, and each saved state, can rely on. *)

Results == {"pending", "completed", "failed"}

TablesTyped ==
  /\ stored \in [Events -> SUBSET Pages]
  /\ event \subseteq Events
  /\ rsvps \subseteq Events
  /\ skipped \in [Jobs -> SUBSET Events]
  /\ unseen \in [Events -> SUBSET Pages]

LEMMA NewStateTyped == NewState \in State
<1>1. <<>> \in Seq(Events)
  OBVIOUS
<1>2. 0 \in 0..MemberPages - 1
  BY ImportAssumption
<1> QED BY <1>1, <1>2 DEF NewState, State

LEMMA BookFacts ==
  ASSUME NEW j \in Jobs, archive \in [Jobs -> Archives]
  PROVE  Len(archive[j]) \in Nat \ {0} /\ archive[j] \in Seq(Seq(Events))
<1>1. archive[j] \in Seq(Seq(Events)) /\ archive[j] # <<>>
  BY ImportAssumption
<1> QED BY <1>1

LEMMA SkipTyped ==
  ASSUME TypeOK, NEW events \in SUBSET Events, Skip(events)
  PROVE  /\ skipped' \in [Jobs -> SUBSET Events]
         /\ skipped'[job] = skipped[job] \cup events
         /\ \A j \in Jobs : skipped[j] \subseteq skipped'[j]
BY DEF TypeOK, Skip

\* A state goes on with its components changed one by one.
LEMMA StateFields ==
  ASSUME NEW s \in State
  PROVE  /\ s.events \in Seq(Events) /\ s.eventCursor \in Nat
         /\ s.members \in SUBSET Pages /\ s.memberCursor \in 0..MemberPages - 1
BY DEF State

LEMMA QueueKept ==
  ASSUME SavedStateInv, UNCHANGED queue
  PROVE  QueuedOnce' /\ ResumesWithMembers'
BY DEF SavedStateInv, QueuedOnce, ResumesWithMembers, queue

\* importClubEvents returns with a state that can be resumed, if it is to be.
LEMMA LeaveInv ==
  ASSUME SavedStateInv, pc # "idle", UNCHANGED queue, TablesTyped', faults' \in 0..MaxFaults,
         NEW s \in State, NEW r \in Results, Leave(s, r),
         s.eventCursor < Len(Book), r = "pending" => Resumable(s)
  PROVE  SavedStateInv'
<1>1. TypeOK'
  <2>1. <<>> \in Seq(Events) /\ 0 \in Nat
    OBVIOUS
  <2> QED BY <2>1 DEF SavedStateInv, TypeOK, TablesTyped, Leave, queue, Statements, Results
<1>2. AttemptInv'
  BY DEF SavedStateInv, AttemptInv, Leave, queue, Results, Inserts, Book, IsFirst, Resumable
<1> QED BY <1>1, <1>2, QueueKept DEF SavedStateInv

\* The loop over the events goes on.
LEMMA GotoInv ==
  ASSUME SavedStateInv, pc \notin {"idle", "update"}, UNCHANGED queue, TablesTyped',
         faults' \in 0..MaxFaults,
         NEW s \in State, NEW st \in {"members"} \cup Inserts, Goto(s, st),
         s.events # <<>>, s.eventCursor = 0,
         st = "members" => Resumable(s),
         st \in Inserts => s.members \cup unseen'[Head(s.events)] = Pages,
         st \in {"insertEvents", "insertRSVPs"} =>
           stored'[Head(s.events)] \cup unseen'[Head(s.events)] = Pages,
         st = "insertRSVPs" => Head(s.events) \in event'
  PROVE  SavedStateInv'
<1>1. TypeOK'
  <2>1. <<>> \in Seq(Events) /\ 0 \in Nat
    OBVIOUS
  <2> QED BY <2>1 DEF SavedStateInv, TypeOK, TablesTyped, Goto, queue, Statements, Inserts
<1>2. AttemptInv'
  <2>1. Len(Book) \in Nat \ {0}
    BY BookFacts DEF SavedStateInv, TypeOK, Book
  <2> QED BY <2>1 DEF SavedStateInv, AttemptInv, Goto, queue, Inserts, Book, IsFirst, Resumable, First
<1> QED BY <1>1, <1>2, QueueKept DEF SavedStateInv

\* An attempt ends or is lost: nothing is under way.
LEMMA EndAttemptInv ==
  ASSUME TypeOK, EndAttempt
  PROVE  /\ pc' \in Statements /\ job' \in Jobs /\ past' \in Seq(Events) /\ page' \in Nat
         /\ state' \in State /\ result' \in {"none"} \cup Results
         /\ AttemptInv'
<1>1. <<>> \in Seq(Events) /\ 0 \in Nat
  OBVIOUS
<1> QED BY <1>1, NewStateTyped DEF EndAttempt, TypeOK, Statements, AttemptInv, Inserts

LEMMA InitInv == Init => SavedStateInv
<1> SUFFICES ASSUME Init PROVE SavedStateInv
  OBVIOUS
<1>1. TypeOK
  <2>1. <<>> \in Seq(Events) /\ <<>> \in Seq(Jobs) /\ 0 \in Nat /\ 0 \in 0..MaxFaults
    BY ImportAssumption
  <2> QED BY <2>1, NewStateTyped, ImportAssumption DEF Init, TypeOK, Statements
<1>2. QueuedOnce
  BY ToSetOfEmpty DEF Init, QueuedOnce, IsInjective
<1>3. ResumesWithMembers
  BY DEF Init, ResumesWithMembers
<1>4. AttemptInv
  BY DEF Init, AttemptInv, Inserts
<1> QED BY <1>1, <1>2, <1>3, <1>4 DEF SavedStateInv

LEMMA InsertJobInv ==
  ASSUME SavedStateInv, NEW j \in Jobs, InsertClubImportJob(j)
  PROVE  SavedStateInv'
<1>0. TypeOK /\ QueuedOnce /\ ResumesWithMembers /\ AttemptInv
  BY DEF SavedStateInv
<1>1. /\ status[j] = "none" /\ status' = [status EXCEPT ![j] = "pending"]
      /\ untried' = Append(untried, j)
      /\ UNCHANGED <<archive, saved, retry, tables, importer, faults, history>>
  BY DEF InsertClubImportJob
<1>2. untried \in Seq(Jobs) /\ saved[j] = NewState /\ j \notin ToSet(untried) /\ j \notin ToSet(retry)
  BY <1>0, <1>1 DEF TypeOK, QueuedOnce
<1>3. Append(untried, j) \in Seq(Jobs) /\ ToSet(untried') = ToSet(untried) \cup {j}
      /\ IsInjective(untried')
  BY <1>0, <1>1, <1>2, ToSetOfAppend, InjectiveAppend DEF QueuedOnce
<1>4. TypeOK'
  BY <1>0, <1>1, <1>3 DEF TypeOK, tables, importer, history
<1>5. QueuedOnce'
  <2>1. {i \in Jobs : status'[i] = "pending"} = {i \in Jobs : status[i] = "pending"} \cup {j}
    BY <1>0, <1>1 DEF TypeOK
  <2>2. \A i \in Jobs : status'[i] = "none" => status[i] = "none"
    BY <1>0, <1>1 DEF TypeOK
  <2>3. retry' = retry /\ saved' = saved
    BY <1>1
  <2> QED BY <1>0, <1>2, <1>3, <2>1, <2>2, <2>3 DEF QueuedOnce
<1>6. ResumesWithMembers'
  <2>1. Resumable(NewState) /\ NewState.eventCursor = 0
    BY DEF Resumable, NewState
  <2>2. 0 < Len(archive[j])
    BY <1>0, BookFacts DEF TypeOK
  <2> QED BY <1>0, <1>1, <1>2, <2>1, <2>2 DEF ResumesWithMembers, TypeOK, Resumable
<1>7. AttemptInv'
  <2>1. IsFirst(untried) => IsFirst(untried)'
    BY <1>1, <1>2 DEF IsFirst, importer
  <2>2. IsFirst(retry) => IsFirst(retry)'
    BY <1>1 DEF IsFirst, importer
  <2> QED BY <1>0, <1>1, <2>1, <2>2 DEF AttemptInv, importer, tables, history, Book, Resumable, First
<1> QED BY <1>4, <1>5, <1>6, <1>7 DEF SavedStateInv

\* The job taken is the head of one of the queues.
LEMMA HeadPending ==
  ASSUME TypeOK, QueuedOnce, Pending # <<>>
  PROVE  /\ \/ untried # <<>> /\ Head(Pending) = Head(untried)
            \/ retry # <<>> /\ Head(Pending) = Head(retry)
         /\ Head(Pending) \in Jobs /\ status[Head(Pending)] = "pending"
<1>1. untried \in Seq(Jobs) /\ retry \in Seq(Jobs)
  BY DEF TypeOK
<1>2. CASE untried = <<>>
  <2>1. Pending = retry
    BY <1>1, <1>2 DEF Pending
  <2> QED BY <1>1, <2>1, HeadAndTail DEF QueuedOnce
<1>3. CASE untried # <<>>
  <2>1. Head(Pending) = Head(untried)
    BY <1>1, <1>3 DEF Pending
  <2> QED BY <1>1, <1>3, <2>1, HeadAndTail DEF QueuedOnce
<1> QED BY <1>2, <1>3

LEMMA GetNextInv ==
  ASSUME SavedStateInv, GetNextPendingClubImportJob
  PROVE  SavedStateInv'
<1>0. TypeOK /\ QueuedOnce /\ ResumesWithMembers /\ AttemptInv
  BY DEF SavedStateInv
<1> DEFINE j == Head(Pending)
<1>1. /\ pc = "idle" /\ Pending # <<>> /\ job' = j /\ state' = saved[j]
      /\ pc' = IF saved[j].events = <<>> \/ saved[j].eventCursor # 0 THEN "pastEvents"
                                                                    ELSE "members"
      /\ UNCHANGED <<queue, tables, past, page, result, faults, history>>
  BY DEF GetNextPendingClubImportJob
<1>2. \/ untried # <<>> /\ j = Head(untried)
      \/ retry # <<>> /\ j = Head(retry)
  BY <1>0, <1>1, HeadPending
<1>3. j \in Jobs /\ status[j] = "pending"
  BY <1>0, <1>1, HeadPending
<1>4. saved[j] \in State /\ Resumable(saved[j]) /\ saved[j].eventCursor < Len(archive[j])
  BY <1>0, <1>3 DEF TypeOK, ResumesWithMembers
<1> HIDE DEF j
<1>5. TypeOK'
  BY <1>0, <1>1, <1>3, <1>4 DEF TypeOK, queue, tables, history, Statements
<1>6. AttemptInv'
  BY <1>0, <1>1, <1>2, <1>4 DEF AttemptInv, queue, tables, Inserts, IsFirst, Resumable, Book
<1> QED BY <1>1, <1>5, <1>6, QueueKept DEF SavedStateInv

\* The job leaves its queue, or returns to its end.
LEMMA UpdateJobInv ==
  ASSUME SavedStateInv, UpdateClubImportJob
  PROVE  SavedStateInv'
<1>0. TypeOK /\ QueuedOnce /\ ResumesWithMembers /\ AttemptInv
  BY DEF SavedStateInv
<1>1. /\ pc = "update" /\ EndAttempt
      /\ status' = [status EXCEPT ![job] = result]
      /\ saved' = [saved EXCEPT ![job] = state]
      /\ untried' = Without(untried)
      /\ retry' = IF result = "pending" THEN Append(Without(retry), job) ELSE Without(retry)
      /\ UNCHANGED <<archive, tables, faults, history>>
  BY DEF UpdateClubImportJob
<1>2. job \in Jobs /\ state \in State /\ result \in Results
  BY <1>0, <1>1 DEF TypeOK, AttemptInv, Results
<1>3. IsFirst(untried) \/ IsFirst(retry)
  BY <1>0, <1>1 DEF AttemptInv
<1>4. ASSUME NEW q \in Seq(Jobs), IsInjective(q), q \in {untried, retry}
      PROVE  /\ Without(q) \in Seq(Jobs) /\ IsInjective(Without(q))
             /\ ToSet(Without(q)) = ToSet(q) \ {job}
  <2>1. CASE IsFirst(q)
    BY <1>4, <2>1, InjectiveTail, HeadAndTail DEF Without, IsFirst
  <2>2. CASE ~IsFirst(q)
    <3>1. job \notin ToSet(q)
      <4>1. CASE q = untried
        <5>1. IsFirst(retry)
          BY <1>3, <2>2, <4>1
        <5>2. job \in ToSet(retry)
          BY <1>0, <5>1, HeadAndTail DEF IsFirst, TypeOK
        <5> QED BY <1>0, <4>1, <5>2 DEF QueuedOnce
      <4>2. CASE q = retry
        <5>1. IsFirst(untried)
          BY <1>3, <2>2, <4>2
        <5>2. job \in ToSet(untried)
          BY <1>0, <5>1, HeadAndTail DEF IsFirst, TypeOK
        <5> QED BY <1>0, <4>2, <5>2 DEF QueuedOnce
      <4> QED BY <1>4, <4>1, <4>2
    <3> QED BY <1>4, <2>2, <3>1 DEF Without
  <2> QED BY <2>1, <2>2
<1>5. /\ Without(untried) \in Seq(Jobs) /\ IsInjective(Without(untried))
      /\ ToSet(Without(untried)) = ToSet(untried) \ {job}
  BY <1>0, <1>4 DEF TypeOK, QueuedOnce
<1>6. /\ Without(retry) \in Seq(Jobs) /\ IsInjective(Without(retry))
      /\ ToSet(Without(retry)) = ToSet(retry) \ {job}
  BY <1>0, <1>4 DEF TypeOK, QueuedOnce
<1>7. /\ retry' \in Seq(Jobs) /\ IsInjective(retry')
      /\ ToSet(retry') = (ToSet(retry) \ {job}) \cup (IF result = "pending" THEN {job} ELSE {})
  <2>1. CASE result = "pending"
    <3>1. job \notin ToSet(Without(retry))
      BY <1>6
    <3> QED BY <1>1, <1>2, <1>6, <2>1, <3>1, ToSetOfAppend, InjectiveAppend
  <2>2. CASE result # "pending"
    BY <1>1, <1>6, <2>2
  <2> QED BY <2>1, <2>2
<1>8. TypeOK'
  BY <1>0, <1>1, <1>2, <1>5, <1>7, EndAttemptInv DEF TypeOK, tables, history, Results
<1>9. QueuedOnce'
  <2>1. {i \in Jobs : status'[i] = "pending"} =
          ({i \in Jobs : status[i] = "pending"} \ {job})
            \cup (IF result = "pending" THEN {job} ELSE {})
    BY <1>0, <1>1, <1>2 DEF TypeOK
  <2>2. \A i \in Jobs : status'[i] = "none" => saved'[i] = NewState
    BY <1>0, <1>1, <1>2 DEF QueuedOnce, TypeOK, Results
  <2>3. /\ IsInjective(untried') /\ ToSet(untried') = ToSet(untried) \ {job}
    BY <1>1, <1>5
  <2> QED BY <1>0, <1>7, <2>1, <2>2, <2>3 DEF QueuedOnce
<1>10. ResumesWithMembers'
  <2>1. result = "pending" => Resumable(state)
    BY <1>0 DEF AttemptInv
  <2>2. state.eventCursor < Len(archive[job])
    BY <1>0, <1>1 DEF AttemptInv, Book
  <2> QED BY <1>0, <1>1, <1>2, <2>1, <2>2 DEF ResumesWithMembers, TypeOK
<1> QED BY <1>0, <1>1, <1>8, <1>9, <1>10, EndAttemptInv DEF SavedStateInv

LEMMA LoseInv ==
  ASSUME SavedStateInv, Lose
  PROVE  SavedStateInv'
<1>1. TypeOK /\ EndAttempt /\ UNCHANGED <<queue, tables, history>> /\ faults' \in 0..MaxFaults
  BY ImportAssumption DEF SavedStateInv, Lose, Fault, TypeOK
<1>2. TypeOK'
  BY <1>1, EndAttemptInv DEF TypeOK, queue, tables, history, Results
<1> QED BY <1>1, <1>2, EndAttemptInv, QueueKept DEF SavedStateInv

\* The first half of importClubEvents.
LEMMA PastEventsInv ==
  ASSUME SavedStateInv,
         \/ TokenLookupFails \/ GetPastEvents \/ PageRequestFails
         \/ ReadPage \/ ReadLastPage \/ ReadErroredPage
  PROVE  SavedStateInv'
<1>0. TypeOK /\ QueuedOnce /\ ResumesWithMembers /\ AttemptInv
  BY DEF SavedStateInv
<1>1. /\ state.events \in Seq(Events) /\ state.eventCursor \in Nat
      /\ state.members \in SUBSET Pages /\ state.memberCursor \in 0..MemberPages - 1
  BY <1>0, StateFields DEF TypeOK
<1>2. Len(Book) \in Nat \ {0} /\ Book \in Seq(Seq(Events)) /\ job \in Jobs
  BY <1>0, BookFacts DEF TypeOK, Book
<1>3. ASSUME NEW events \in Seq(Events), NEW cursor \in Nat
      PROVE  /\ Gotten(events, cursor) \in State
             /\ Gotten(events, cursor).events = state.events \o events
             /\ Gotten(events, cursor).eventCursor = cursor
             /\ Resumable(Gotten(events, cursor)) <=> Resumable(state)
  <2>1. state.events \o events \in Seq(Events)
    BY <1>1, ToSetOfConcat
  <2> QED BY <1>0, <2>1 DEF Gotten, State, TypeOK, Resumable
<1>4. past \in Seq(Events) /\ page \in Nat
  BY <1>0 DEF TypeOK
<1>5. CASE TokenLookupFails
  <2> DEFINE s == [state EXCEPT !.eventCursor = 0]
  <2>1. s \in State /\ s.eventCursor = 0 /\ (Resumable(s) <=> Resumable(state))
    BY <1>0 DEF State, TypeOK, Resumable
  <2>2. PICK r \in {"failed", "pending"} : Leave(s, r)
    BY <1>5 DEF TokenLookupFails
  <2>3. /\ pc = "pastEvents" /\ UNCHANGED queue /\ TablesTyped' /\ faults' \in 0..MaxFaults
    <3> DEFINE events == IF state.events = <<>> THEN {} ELSE PagesAfter(Book, state.eventCursor)
    <3>1. /\ pc = "pastEvents" /\ UNCHANGED <<queue, tables, unseen>> /\ faults' \in 0..MaxFaults
          /\ Skip(events)
      BY <1>0, <1>5, ImportAssumption DEF TokenLookupFails, Fault, TypeOK
    <3>2. events \subseteq Events
      BY <1>1, <1>2, PagesTyped
    <3> HIDE DEF events
    <3> QED BY <1>0, <3>1, <3>2, SkipTyped DEF TypeOK, TablesTyped, tables
  <2>4. Resumable(state)
    BY <1>0, <2>3 DEF AttemptInv
  <2> HIDE DEF s
  <2> QED BY <1>2, <2>1, <2>2, <2>3, <2>4, LeaveInv DEF Results
<1>6. CASE GetPastEvents
  <2>1. TypeOK'
    <3>1. <<>> \in Seq(Events)
      OBVIOUS
    <3> QED BY <1>0, <1>1, <1>6, <3>1
            DEF GetPastEvents, TypeOK, queue, tables, history, Statements
  <2>2. AttemptInv'
    BY <1>0, <1>1, <1>2, <1>6 DEF GetPastEvents, AttemptInv, queue, tables, Inserts, IsFirst, Resumable, Book
  <2> QED BY <1>6, <2>1, <2>2, QueueKept DEF SavedStateInv, GetPastEvents
<1>7. CASE PageRequestFails
  <2>1. PICK r \in {"pending", "failed"} : Leave(Gotten(past, page), r)
    BY <1>7 DEF PageRequestFails
  <2>2. /\ pc = "page" /\ UNCHANGED queue /\ TablesTyped' /\ faults' \in 0..MaxFaults
    BY <1>0, <1>7, ImportAssumption DEF PageRequestFails, Fault, TypeOK, TablesTyped, tables, history
  <2>3. Resumable(state) /\ page < Len(Book)
    BY <1>0, <1>1, <1>2, <2>2 DEF AttemptInv
  <2> QED BY <1>3, <1>4, <2>1, <2>2, <2>3, LeaveInv DEF Results
<1>8. CASE ReadPage
  <2>1. Book[page + 1] \in Seq(Events)
    <3>1. page < Len(Book)
      BY <1>2, <1>4, <1>8 DEF ReadPage
    <3> QED BY <1>2, <1>4, <3>1, NextPage
  <2>2. past' \in Seq(Events) /\ page' \in Nat
    BY <1>4, <1>8, <2>1, ToSetOfConcat DEF ReadPage
  <2>3. TypeOK'
    BY <1>0, <1>8, <2>2 DEF ReadPage, TypeOK, queue, tables, history
  <2>4. AttemptInv'
    BY <1>0, <1>1, <1>2, <1>4, <1>8 DEF ReadPage, AttemptInv, queue, tables, Inserts, IsFirst, Resumable, Book
  <2> QED BY <1>8, <2>3, <2>4, QueueKept DEF SavedStateInv, ReadPage
<1>9. ASSUME NEW all \in Seq(Events), EndOfPages(all), pc = "page",
             UNCHANGED queue, TablesTyped', faults' \in 0..MaxFaults
      PROVE  SavedStateInv'
  <2>1. Resumable(state)
    BY <1>0, <1>9 DEF AttemptInv
  <2>2. Gotten(all, 0) \in State /\ Gotten(all, 0).events = state.events \o all
        /\ Gotten(all, 0).eventCursor = 0 /\ Resumable(Gotten(all, 0))
    BY <1>3, <2>1
  <2>3. CASE all = <<>>
    <3>1. Leave(Gotten(all, 0), "completed")
      BY <1>9, <2>3 DEF EndOfPages
    <3> QED BY <1>2, <1>9, <2>2, <3>1, LeaveInv DEF Results
  <2>4. CASE all # <<>>
    <3>1. state.events \o all # <<>>
      BY <1>1, <2>4
    <3>2. Goto(Gotten(all, 0), "members")
      BY <1>9, <2>4 DEF EndOfPages
    <3> QED BY <1>9, <2>2, <3>1, <3>2, GotoInv DEF Inserts
  <2> QED BY <2>3, <2>4
<1>10. CASE ReadLastPage
  <2>1. /\ pc = "page" /\ page + 1 = Len(Book) /\ EndOfPages(past \o Book[page + 1])
        /\ UNCHANGED <<queue, tables, faults, history>>
    BY <1>10 DEF ReadLastPage
  <2>2. Book[page + 1] \in Seq(Events)
    <3>1. page < Len(Book)
      BY <1>2, <1>4, <2>1
    <3> QED BY <1>2, <1>4, <3>1, NextPage
  <2>3. past \o Book[page + 1] \in Seq(Events)
    BY <1>4, <2>2, ToSetOfConcat
  <2>4. TablesTyped' /\ faults' \in 0..MaxFaults
    BY <1>0, <2>1 DEF TypeOK, TablesTyped, tables, history
  <2> QED BY <1>9, <2>1, <2>3, <2>4
<1>11. CASE ReadErroredPage
  <2>1. /\ pc = "page" /\ UNCHANGED <<queue, tables, unseen>> /\ faults' \in 0..MaxFaults
        /\ \/ EndOfPages(past) /\ Skip(PagesAfter(Book, page))
           \/ EndOfPages(past \o Book[page + 1]) /\ Skip(PagesAfter(Book, page + 1))
    BY <1>0, <1>11, ImportAssumption DEF ReadErroredPage, Fault, TypeOK
  <2>2. past \o Book[page + 1] \in Seq(Events)
    <3>1. page < Len(Book)
      BY <1>0, <1>1, <1>2, <2>1 DEF AttemptInv
    <3>2. Book[page + 1] \in Seq(Events)
      BY <1>2, <1>4, <3>1, NextPage
    <3> QED BY <1>4, <3>2, ToSetOfConcat
  <2>3. PagesAfter(Book, page) \subseteq Events /\ PagesAfter(Book, page + 1) \subseteq Events
    BY <1>2, <1>4, PagesTyped
  <2>4. skipped' \in [Jobs -> SUBSET Events]
    BY <1>0, <2>1, <2>3, SkipTyped
  <2>5. TablesTyped'
    BY <1>0, <2>1, <2>4 DEF TypeOK, TablesTyped, tables
  <2> QED BY <1>4, <1>9, <2>1, <2>2, <2>5
<1> QED BY <1>5, <1>6, <1>7, <1>8, <1>10, <1>11

\* The loop over the events.
LEMMA EventLoopInv ==
  ASSUME SavedStateInv,
         \/ EventMembersFail \/ GetEventMembers \/ GetErroredMembers
         \/ InsertMembers \/ InsertEvents \/ InsertEventRSVPs \/ InsertFails
  PROVE  SavedStateInv'
<1>0. TypeOK /\ QueuedOnce /\ ResumesWithMembers /\ AttemptInv
  BY DEF SavedStateInv
<1>1. /\ state.events \in Seq(Events) /\ state.eventCursor \in Nat
      /\ state.members \in SUBSET Pages /\ state.memberCursor \in 0..MemberPages - 1
  BY <1>0, StateFields DEF TypeOK
<1>2. Len(Book) \in Nat \ {0} /\ MemberPages \in Nat \ {0}
  BY <1>0, BookFacts, ImportAssumption DEF TypeOK, Book
<1>3. TablesTyped /\ state \in State
  BY <1>0 DEF TypeOK, TablesTyped
<1>4. CASE EventMembersFail
  <2>1. PICK k \in state.memberCursor..MemberPages - 1 :
          Leave([state EXCEPT !.members = @ \cup state.memberCursor + 1..k,
                              !.memberCursor = k], "pending")
    BY <1>4 DEF EventMembersFail
  <2> DEFINE s == [state EXCEPT !.members = @ \cup state.memberCursor + 1..k,
                                !.memberCursor = k]
  <2>2. /\ pc = "members" /\ UNCHANGED queue /\ TablesTyped' /\ faults' \in 0..MaxFaults
    <3>1. pc = "members" /\ UNCHANGED <<queue, tables, history>>
      BY <1>4 DEF EventMembersFail
    <3>2. faults' \in 0..MaxFaults
      <4>1. faults \in 0..MaxFaults /\ (faults' = faults \/ Fault)
        BY <1>0, <1>4 DEF EventMembersFail, TypeOK
      <4> QED BY <4>1, ImportAssumption DEF Fault
    <3> QED BY <1>3, <3>1, <3>2 DEF TablesTyped, tables, history
  <2>3. state.members = 1..state.memberCursor
    BY <1>0, <2>2 DEF AttemptInv, Resumable
  <2>4. state.members \cup state.memberCursor + 1..k = 1..k
    BY <1>1, <1>2, <2>3
  <2>5. s \in State /\ s.members = 1..k /\ s.memberCursor = k /\ s.eventCursor = state.eventCursor
    <3>1. 1..k \in SUBSET Pages /\ k \in 0..MemberPages - 1
      BY <1>1, <1>2 DEF Pages
    <3> QED BY <1>3, <2>4, <3>1 DEF State
  <2>6. s.eventCursor < Len(Book)
    BY <1>0, <2>2, <2>5 DEF AttemptInv
  <2>7. Leave(s, "pending")
    BY <2>1
  <2>8. Resumable(s)
    BY <2>5 DEF Resumable
  <2> HIDE DEF s
  <2> QED BY <2>2, <2>6, <2>7, <2>8, <2>5, LeaveInv DEF Results
<1>5. CASE GetEventMembers
  <2> DEFINE s == [state EXCEPT !.members = @ \cup state.memberCursor + 1..MemberPages,
                                !.memberCursor = 0]
  <2>1. /\ pc = "members" /\ UNCHANGED queue /\ TablesTyped' /\ faults' \in 0..MaxFaults
    BY <1>0, <1>3, <1>5 DEF GetEventMembers, TypeOK, TablesTyped, tables, history
  <2>2. state.members = 1..state.memberCursor
    BY <1>0, <2>1 DEF AttemptInv, Resumable
  <2>3. state.members \cup state.memberCursor + 1..MemberPages = Pages
    BY <1>1, <1>2, <2>2 DEF Pages
  <2>4. /\ s \in State /\ s.members = Pages /\ s.events = state.events
        /\ s.eventCursor = state.eventCursor
    <3>1. 0 \in 0..MemberPages - 1
      BY <1>2
    <3> QED BY <1>3, <2>3, <3>1 DEF State
  <2>5. Goto(s, "insertMembers")
    BY <1>5 DEF GetEventMembers
  <2> HIDE DEF s
  <2>6. state.events # <<>> /\ state.eventCursor = 0
    BY <1>0, <2>1 DEF AttemptInv
  <2>7. s.members \cup unseen'[Head(s.events)] = Pages
    BY <1>1, <2>1, <2>4, <2>6, HeadAndTail DEF TablesTyped
  <2> QED BY <2>1, <2>4, <2>5, <2>6, <2>7, GotoInv DEF Inserts
<1>9. CASE GetErroredMembers
  <2>1. PICK k \in state.memberCursor..MemberPages - 1 :
          /\ Goto([state EXCEPT !.members = @ \cup state.memberCursor + 1..k,
                                !.memberCursor = 0], "insertMembers")
          /\ unseen' = [unseen EXCEPT ![First] = @ \cup k + 1..MemberPages]
    BY <1>9 DEF GetErroredMembers
  <2> DEFINE s == [state EXCEPT !.members = @ \cup state.memberCursor + 1..k,
                                !.memberCursor = 0]
  <2>2. /\ pc = "members" /\ UNCHANGED <<queue, tables, skipped>> /\ faults' \in 0..MaxFaults
    <3>1. pc = "members" /\ UNCHANGED <<queue, tables, skipped>> /\ Fault
      BY <1>9 DEF GetErroredMembers
    <3>2. faults' \in 0..MaxFaults
      BY <1>0, <3>1, ImportAssumption DEF Fault, TypeOK
    <3> QED BY <3>1, <3>2
  <2>3. state.members = 1..state.memberCursor /\ state.events # <<>> /\ state.eventCursor = 0
    BY <1>0, <2>2 DEF AttemptInv, Resumable
  <2>4. /\ state.members \cup state.memberCursor + 1..k = 1..k
        /\ 1..k \cup k + 1..MemberPages = Pages
        /\ 1..k \subseteq Pages /\ k + 1..MemberPages \subseteq Pages
    BY <1>1, <1>2, <2>3 DEF Pages
  <2>5. s \in State /\ s.members = 1..k /\ s.events = state.events /\ s.eventCursor = 0
    <3>1. 0 \in 0..MemberPages - 1
      BY <1>2
    <3> QED BY <1>3, <2>3, <2>4, <3>1 DEF State
  <2>6. First \in Events /\ First = Head(s.events)
    BY <1>1, <2>3, <2>5, HeadAndTail DEF First
  <2>7. unseen' \in [Events -> SUBSET Pages] /\ k + 1..MemberPages \subseteq unseen'[First]
    BY <1>3, <2>1, <2>4, <2>6 DEF TablesTyped
  <2>8. TablesTyped'
    BY <1>3, <2>2, <2>7 DEF TablesTyped, tables
  <2>9. s.members \cup unseen'[Head(s.events)] = Pages
    BY <2>4, <2>5, <2>6, <2>7
  <2>10. Goto(s, "insertMembers")
    BY <2>1
  <2> HIDE DEF s
  <2> QED BY <2>2, <2>3, <2>5, <2>8, <2>9, <2>10, GotoInv DEF Inserts
<1>6. CASE InsertMembers \/ InsertEvents
  <2>1. /\ pc \in {"insertMembers", "insertEvents"} /\ UNCHANGED <<queue, history>>
        /\ faults' \in 0..MaxFaults
    BY <1>0, <1>6 DEF InsertMembers, InsertEvents, TypeOK
  <2>2. /\ state.events # <<>> /\ state.eventCursor = 0
        /\ state.members \cup unseen[First] = Pages
        /\ pc = "insertEvents" => stored[First] \cup unseen[First] = Pages
    BY <1>0, <2>1 DEF AttemptInv, Inserts
  <2>3. First \in Events
    BY <1>1, <2>2, HeadAndTail DEF First
  <2>4. CASE InsertMembers
    <3>1. stored' = [stored EXCEPT ![First] = @ \cup state.members] /\ UNCHANGED <<event, rsvps>>
          /\ Goto(state, "insertEvents")
      BY <2>4 DEF InsertMembers
    <3>2. TablesTyped'
      BY <1>1, <1>3, <2>1, <2>3, <3>1 DEF TablesTyped, history
    <3>3. stored'[First] \cup unseen'[First] = Pages /\ unseen' = unseen
      BY <1>3, <2>1, <2>2, <2>3, <3>1 DEF TablesTyped, history
    <3> QED BY <1>3, <2>1, <2>2, <3>1, <3>2, <3>3, GotoInv DEF Inserts, First
  <2>5. CASE InsertEvents
    <3>1. /\ pc = "insertEvents" /\ event' = event \cup {First} /\ UNCHANGED <<stored, rsvps>>
          /\ Goto(state, "insertRSVPs")
      BY <2>5 DEF InsertEvents
    <3>2. TablesTyped' /\ unseen' = unseen
      BY <1>3, <2>1, <2>3, <3>1 DEF TablesTyped, history
    <3> QED BY <1>3, <2>1, <2>2, <3>1, <3>2, GotoInv DEF Inserts, First
  <2> QED BY <1>6, <2>4, <2>5
<1>7. CASE InsertEventRSVPs
  <2> DEFINE s == [state EXCEPT !.events = Tail(@), !.members = {}, !.memberCursor = 0]
  <2>1. /\ pc = "insertRSVPs" /\ UNCHANGED queue /\ faults' \in 0..MaxFaults
        /\ rsvps' = rsvps \cup {First} /\ UNCHANGED <<stored, event, history>>
        /\ IF s.events = <<>> THEN Leave(s, "completed") ELSE Goto(s, "members")
    BY <1>0, <1>7 DEF InsertEventRSVPs, TypeOK
  <2>2. state.events # <<>> /\ state.eventCursor = 0
    BY <1>0, <2>1 DEF AttemptInv, Inserts
  <2>3. First \in Events /\ Tail(state.events) \in Seq(Events)
    BY <1>1, <2>2, HeadAndTail DEF First
  <2>4. s \in State /\ s.eventCursor = 0 /\ s.members = {} /\ s.memberCursor = 0
    <3>1. 0 \in 0..MemberPages - 1 /\ {} \in SUBSET Pages
      BY <1>2
    <3> QED BY <1>3, <2>2, <2>3, <3>1 DEF State
  <2>5. Resumable(s)
    BY <2>4 DEF Resumable
  <2>6. TablesTyped'
    BY <1>3, <2>1, <2>3 DEF TablesTyped, history
  <2> HIDE DEF s
  <2>7. CASE s.events = <<>>
    BY <1>2, <2>1, <2>4, <2>6, <2>7, LeaveInv DEF Results
  <2>8. CASE s.events # <<>>
    BY <2>1, <2>4, <2>5, <2>6, <2>8, GotoInv DEF Inserts
  <2> QED BY <2>7, <2>8
<1>8. CASE InsertFails
  <2>1. /\ pc \in Inserts /\ UNCHANGED queue /\ TablesTyped' /\ faults' \in 0..MaxFaults
        /\ Leave(state, "failed")
    BY <1>0, <1>3, <1>8, ImportAssumption DEF InsertFails, Fault, TypeOK, TablesTyped, tables, history, Inserts
  <2>2. state.eventCursor < Len(Book)
    BY <1>0, <2>1 DEF AttemptInv, Inserts
  <2> QED BY <1>3, <2>1, <2>2, LeaveInv DEF Results, Inserts
<1> QED BY <1>4, <1>5, <1>6, <1>7, <1>8, <1>9

\* Types, the queue, the saved states and what an attempt relies on: a job
\* that is pending can always be taken up again.
THEOREM SavedStates == Spec => []SavedStateInv
<1>1. SavedStateInv /\ UNCHANGED vars => SavedStateInv'
  BY DEF SavedStateInv, TypeOK, QueuedOnce, ResumesWithMembers, AttemptInv, vars, queue, tables,
         importer, history, Book, First, IsFirst, Resumable
<1>2. SavedStateInv /\ Next => SavedStateInv'
  BY InsertJobInv, GetNextInv, UpdateJobInv, LoseInv, PastEventsInv, EventLoopInv
     DEF Next, Importer, Failure
<1> QED BY InitInv, <1>1, <1>2, PTL DEF Spec

-----------------------------------------------------------------------------
(* No event is imported in part. *)

LEMMA ImportedStep ==
  ASSUME SavedStateInv, ImportedEventIsComplete, Next
  PROVE  ImportedEventIsComplete'
<1>1. TypeOK /\ AttemptInv
  BY DEF SavedStateInv
<1>2. CASE InsertMembers
  <2>1. /\ stored' = [stored EXCEPT ![First] = @ \cup state.members]
        /\ event' = event /\ rsvps' = rsvps /\ unseen' = unseen
    BY <1>2 DEF InsertMembers, history
  <2>2. state.members \subseteq Pages
    BY <1>1, StateFields DEF TypeOK
  <2>3. stored \in [Events -> SUBSET Pages] /\ rsvps \subseteq Events
    BY <1>1 DEF TypeOK
  <2> QED BY <2>1, <2>2, <2>3 DEF ImportedEventIsComplete
<1>3. CASE InsertEvents
  BY <1>3 DEF InsertEvents, history, ImportedEventIsComplete
<1>4. CASE InsertEventRSVPs
  <2>1. /\ rsvps' = rsvps \cup {First} /\ UNCHANGED <<stored, event, unseen>>
        /\ pc = "insertRSVPs"
    BY <1>4 DEF InsertEventRSVPs, history
  <2>2. stored[First] \cup unseen[First] = Pages /\ First \in event
    BY <1>1, <2>1 DEF AttemptInv
  <2> QED BY <2>1, <2>2 DEF ImportedEventIsComplete
<1>5. CASE \E j \in Jobs : InsertClubImportJob(j)
  BY <1>5 DEF InsertClubImportJob, tables, history, ImportedEventIsComplete
<1>6. CASE GetErroredMembers
  <2>1. PICK k \in state.memberCursor..MemberPages - 1 :
          unseen' = [unseen EXCEPT ![First] = @ \cup k + 1..MemberPages]
    BY <1>6 DEF GetErroredMembers
  <2>2. UNCHANGED tables
    BY <1>6 DEF GetErroredMembers
  <2>3. k + 1..MemberPages \subseteq Pages
    BY <1>1, StateFields, ImportAssumption DEF TypeOK, Pages
  <2>4. /\ stored \in [Events -> SUBSET Pages] /\ unseen \in [Events -> SUBSET Pages]
        /\ rsvps \subseteq Events
    BY <1>1 DEF TypeOK
  <2>5. \A e \in Events : unseen[e] \subseteq unseen'[e] /\ unseen'[e] \subseteq Pages
    BY <2>1, <2>3, <2>4
  <2> QED BY <2>2, <2>4, <2>5 DEF ImportedEventIsComplete, tables
<1>7. CASE \/ GetNextPendingClubImportJob \/ UpdateClubImportJob \/ GetPastEvents
           \/ ReadPage \/ ReadLastPage \/ GetEventMembers \/ EventMembersFail
           \/ TokenLookupFails \/ PageRequestFails \/ ReadErroredPage \/ InsertFails \/ Lose
  <2>1. UNCHANGED <<tables, unseen>>
    BY <1>7 DEF GetNextPendingClubImportJob, UpdateClubImportJob, GetPastEvents, ReadPage,
                ReadLastPage, GetEventMembers, EventMembersFail, TokenLookupFails,
                PageRequestFails, ReadErroredPage, InsertFails, Lose, history
  <2> QED BY <2>1 DEF tables, ImportedEventIsComplete
<1> QED BY <1>2, <1>3, <1>4, <1>5, <1>6, <1>7 DEF Next, Importer, Failure

\* importClubEvents writes an event's RSVPs last: an event that has them is
\* in its table, with all its members but those on pages that an answer with
\* errors hid.
THEOREM ImportedIsComplete == Spec => []ImportedEventIsComplete
<1>1. Init => ImportedEventIsComplete
  BY DEF Init, ImportedEventIsComplete
<1>2. ImportedEventIsComplete /\ UNCHANGED vars => ImportedEventIsComplete'
  BY DEF ImportedEventIsComplete, vars, tables, history
<1> QED BY <1>1, <1>2, SavedStates, ImportedStep, PTL DEF Spec

-----------------------------------------------------------------------------
(* No past event of a club is forgotten. *)

\* No RSVP is lost, and no event that was skipped is taken for one ahead.
Grown ==
  /\ rsvps \subseteq rsvps'
  /\ \A j \in Jobs : skipped[j] \subseteq skipped'[j]

LEMMA CoverKept ==
  ASSUME CoverInv, UNCHANGED queue, Grown
  PROVE  NothingForgotten' /\ CompletedIsAccounted'
BY DEF CoverInv, NothingForgotten, CompletedIsAccounted, Ahead, EventsOf, queue, Grown

LEMMA LeaveCover ==
  ASSUME CoverInv, UNCHANGED queue, Grown,
         NEW s \in State, NEW r \in Results, Leave(s, r),
         r = "pending" => EventsOf(job) \subseteq rsvps' \cup skipped'[job] \cup Ahead(job, s),
         r = "completed" => EventsOf(job) \subseteq rsvps' \cup skipped'[job] \cup ToSet(s.events)
  PROVE  CoverInv'
<1>1. pc' = "update" /\ job' = job /\ archive' = archive /\ state' = s /\ result' = r
  BY DEF Leave, queue
<1>2. EventsOf(job)' = EventsOf(job) /\ Ahead(job, state)' = Ahead(job, s)
      /\ ToSet(state.events)' = ToSet(s.events)
  BY <1>1 DEF EventsOf, Ahead
<1> QED BY <1>1, <1>2, CoverKept DEF CoverInv, Inserts

LEMMA GotoCover ==
  ASSUME SavedStateInv, CoverInv, pc \notin {"idle", "update"},
         UNCHANGED queue, Grown,
         NEW s \in State, NEW st \in {"members"} \cup Inserts, Goto(s, st),
         EventsOf(job) \subseteq rsvps' \cup skipped'[job] \cup ToSet(s.events)
  PROVE  CoverInv'
<1>1. pc' = st /\ job' = job /\ archive' = archive /\ state' = s /\ result' = result
  BY DEF Goto, queue
<1>2. EventsOf(job)' = EventsOf(job) /\ ToSet(state.events)' = ToSet(s.events)
  BY <1>1 DEF EventsOf
<1>3. result = "none"
  BY DEF SavedStateInv, AttemptInv
<1> QED BY <1>1, <1>2, <1>3, CoverKept DEF CoverInv, Inserts

\* The queue changes: a job arrives, is taken, is put back or ends.
LEMMA QueueCover ==
  ASSUME SavedStateInv, CoverInv,
         \/ \E j \in Jobs : InsertClubImportJob(j)
         \/ GetNextPendingClubImportJob \/ UpdateClubImportJob \/ Lose
  PROVE  CoverInv'
<1>0. TypeOK /\ QueuedOnce /\ AttemptInv
  BY DEF SavedStateInv
<1>1. ASSUME NEW j \in Jobs, InsertClubImportJob(j)
      PROVE  CoverInv'
  <2>1. /\ status[j] = "none" /\ status' = [status EXCEPT ![j] = "pending"]
        /\ UNCHANGED <<archive, saved, tables, importer, history>>
    BY <1>1 DEF InsertClubImportJob
  <2>2. saved[j] = NewState
    BY <1>0, <2>1 DEF QueuedOnce
  <2>3. Ahead(j, saved[j]) = EventsOf(j)
    BY <2>2, ToSetOfEmpty DEF Ahead, EventsOf, NewState
  <2>4. NothingForgotten'
    <3>1. \A i \in Jobs : Ahead(i, saved[i])' = Ahead(i, saved[i]) /\ EventsOf(i)' = EventsOf(i)
      BY <2>1 DEF Ahead, EventsOf
    <3>2. \A i \in Jobs : status'[i] = "pending" => status[i] = "pending" \/ i = j
      BY <1>0, <2>1 DEF TypeOK
    <3> QED BY <2>1, <2>3, <3>1, <3>2 DEF NothingForgotten, CoverInv, tables, history
  <2>5. CompletedIsAccounted'
    <3>1. \A i \in Jobs : status'[i] = "completed" => status[i] = "completed"
      BY <1>0, <2>1 DEF TypeOK
    <3> QED BY <2>1, <3>1 DEF CompletedIsAccounted, CoverInv, tables, history, EventsOf
  <2> QED BY <2>1, <2>4, <2>5 DEF CoverInv, tables, importer, history, Book, Ahead, EventsOf
<1>2. CASE GetNextPendingClubImportJob
  <2> DEFINE j == Head(Pending)
  <2>1. /\ pc = "idle" /\ Pending # <<>> /\ job' = j /\ state' = saved[j]
        /\ pc' = IF saved[j].events = <<>> \/ saved[j].eventCursor # 0 THEN "pastEvents"
                                                                      ELSE "members"
        /\ UNCHANGED <<queue, tables, past, page, result, history>>
    BY <1>2 DEF GetNextPendingClubImportJob
  <2>2. j \in Jobs /\ status[j] = "pending"
    BY <1>0, <2>1, HeadPending
  <2> HIDE DEF j
  <2>3. EventsOf(j) \subseteq rsvps \cup Ahead(j, saved[j]) \cup skipped[j]
    BY <2>2 DEF CoverInv, NothingForgotten
  <2>4. result = "none" /\ result' = "none"
    BY <1>0, <2>1 DEF AttemptInv
  <2>5. NothingForgotten' /\ CompletedIsAccounted'
    BY <2>1, CoverKept DEF tables, history, Grown
  <2>6. EventsOf(job)' = EventsOf(j) /\ Book' = archive[j] /\ UNCHANGED <<rsvps, skipped>>
    BY <2>1 DEF EventsOf, Book, queue, tables, history
  <2>7. CASE pc' = "pastEvents"
    <3>1. Ahead(j, saved[j]) =
            ToSet(saved[j].events) \cup PagesAfter(archive[j], saved[j].eventCursor)
      BY <2>1, <2>7 DEF Ahead
    <3> QED BY <2>1, <2>3, <2>4, <2>5, <2>6, <2>7, <3>1 DEF CoverInv, Inserts
  <2>8. CASE pc' = "members"
    <3>1. Ahead(j, saved[j]) = ToSet(saved[j].events)
      BY <2>1, <2>8 DEF Ahead
    <3> QED BY <2>1, <2>3, <2>4, <2>5, <2>6, <2>8, <3>1 DEF CoverInv, Inserts
  <2> QED BY <2>1, <2>7, <2>8
<1>3. CASE UpdateClubImportJob
  <2>1. /\ EndAttempt
        /\ status' = [status EXCEPT ![job] = result] /\ saved' = [saved EXCEPT ![job] = state]
        /\ UNCHANGED <<archive, tables, history>>
    BY <1>3 DEF UpdateClubImportJob
  <2>2. \A i \in Jobs : EventsOf(i)' = EventsOf(i) /\ Ahead(i, saved[i])' = Ahead(i, saved'[i])
    BY <2>1 DEF EventsOf, Ahead
  <2>3. NothingForgotten'
    <3> SUFFICES ASSUME NEW i \in Jobs, status'[i] = "pending"
                 PROVE  EventsOf(i) \subseteq rsvps \cup Ahead(i, saved'[i]) \cup skipped[i]
      BY <2>1, <2>2 DEF NothingForgotten, tables, history
    <3>1. CASE i = job
      BY <1>0, <2>1, <3>1 DEF CoverInv, TypeOK
    <3>2. CASE i # job
      BY <1>0, <2>1, <3>2 DEF CoverInv, NothingForgotten, TypeOK
    <3> QED BY <3>1, <3>2
  <2>4. CompletedIsAccounted'
    <3> SUFFICES ASSUME NEW i \in Jobs, status'[i] = "completed"
                 PROVE  EventsOf(i) \subseteq rsvps \cup skipped[i] \cup ToSet(saved'[i].events)
      BY <2>1, <2>2 DEF CompletedIsAccounted, tables, history
    <3>1. CASE i = job
      BY <1>0, <2>1, <3>1 DEF CoverInv, TypeOK
    <3>2. CASE i # job
      BY <1>0, <2>1, <3>2 DEF CoverInv, CompletedIsAccounted, TypeOK
    <3> QED BY <3>1, <3>2
  <2> QED BY <2>1, <2>3, <2>4 DEF CoverInv, EndAttempt, Inserts
<1>4. CASE Lose
  BY <1>4, CoverKept DEF Lose, EndAttempt, tables, history, Grown, CoverInv, Inserts
<1> QED BY <1>1, <1>2, <1>3, <1>4

\* GetPastEvents, page by page.
LEMMA PastEventsCover ==
  ASSUME SavedStateInv, CoverInv,
         \/ TokenLookupFails \/ GetPastEvents \/ PageRequestFails
         \/ ReadPage \/ ReadLastPage \/ ReadErroredPage
  PROVE  CoverInv'
<1>0. TypeOK /\ AttemptInv
  BY DEF SavedStateInv
<1>1. state \in State /\ state.events \in Seq(Events) /\ state.eventCursor \in Nat
  BY <1>0, StateFields DEF TypeOK
<1>2. Len(Book) \in Nat \ {0} /\ Book \in Seq(Seq(Events)) /\ job \in Jobs
  BY <1>0, BookFacts DEF TypeOK, Book
<1>3. ASSUME NEW events \in Seq(Events), NEW cursor \in Nat
      PROVE  /\ Gotten(events, cursor) \in State
             /\ Gotten(events, cursor).events = state.events \o events
             /\ Gotten(events, cursor).eventCursor = cursor
             /\ ToSet(state.events \o events) = ToSet(state.events) \cup ToSet(events)
  <2>1. state.events \o events \in Seq(Events)
        /\ ToSet(state.events \o events) = ToSet(state.events) \cup ToSet(events)
    BY <1>1, ToSetOfConcat
  <2> QED BY <1>1, <2>1 DEF Gotten, State
<1>4. past \in Seq(Events) /\ page \in Nat
  BY <1>0 DEF TypeOK
<1>5. CASE TokenLookupFails
  <2> DEFINE s == [state EXCEPT !.eventCursor = 0]
             events == IF state.events = <<>> THEN {} ELSE PagesAfter(Book, state.eventCursor)
  <2>1. s \in State /\ s.events = state.events /\ s.eventCursor = 0
    BY <1>1 DEF State
  <2>2. PICK r \in {"failed", "pending"} : Leave(s, r)
    BY <1>5 DEF TokenLookupFails
  <2>3. pc = "pastEvents" /\ UNCHANGED <<queue, tables>> /\ Skip(events)
    BY <1>5 DEF TokenLookupFails
  <2>4. events \subseteq Events
    BY <1>1, <1>2, PagesTyped
  <2>5. EventsOf(job) \subseteq
          rsvps \cup skipped[job] \cup ToSet(state.events) \cup PagesAfter(Book, state.eventCursor)
    BY <2>3 DEF CoverInv
  <2>6. EventsOf(job) \subseteq rsvps \cup (skipped[job] \cup events) \cup Ahead(job, s)
    <3>1. CASE state.events = <<>>
      <4>1. Ahead(job, s) = ToSet(s.events) \cup EventsOf(job)
        BY <2>1, <3>1 DEF Ahead, EventsOf
      <4> QED BY <4>1
    <3>2. CASE state.events # <<>>
      <4>1. events = PagesAfter(Book, state.eventCursor) /\ ToSet(state.events) \subseteq Ahead(job, s)
        BY <2>1, <3>2 DEF Ahead
      <4> QED BY <2>5, <4>1
    <3> QED BY <3>1, <3>2
  <2> HIDE DEF s, events
  <2>7. Grown /\ skipped'[job] = skipped[job] \cup events /\ rsvps' = rsvps
    BY <1>0, <2>3, <2>4, SkipTyped DEF Grown, tables
  <2> QED BY <2>1, <2>2, <2>3, <2>6, <2>7, LeaveCover DEF Results
<1>6. CASE GetPastEvents
  <2>1. /\ pc = "pastEvents" /\ pc' = "page" /\ past' = <<>> /\ page' = state.eventCursor
        /\ UNCHANGED <<queue, tables, job, state, result, history>>
    BY <1>6 DEF GetPastEvents
  <2>2. NothingForgotten' /\ CompletedIsAccounted' /\ result = "none"
    BY <1>0, <2>1, CoverKept DEF tables, history, Grown, AttemptInv
  <2>3. EventsOf(job)' = EventsOf(job) /\ Book' = Book /\ UNCHANGED <<rsvps, skipped>>
    BY <2>1 DEF EventsOf, Book, queue, tables, history
  <2> QED BY <2>1, <2>2, <2>3 DEF CoverInv, Inserts
<1>7. ASSUME pc = "page"
      PROVE  EventsOf(job) \subseteq
               rsvps \cup skipped[job] \cup ToSet(state.events) \cup ToSet(past)
                 \cup PagesAfter(Book, page)
  BY <1>7 DEF CoverInv
<1>8. CASE PageRequestFails
  <2>1. PICK r \in {"pending", "failed"} : Leave(Gotten(past, page), r)
    BY <1>8 DEF PageRequestFails
  <2>2. pc = "page" /\ UNCHANGED <<queue, tables, history>>
    BY <1>8 DEF PageRequestFails
  <2>3. EventsOf(job) \subseteq rsvps \cup skipped[job] \cup Ahead(job, Gotten(past, page))
    <3>1. page # 0 \/ state.events \o past = <<>>
      <4>1. CASE state.events = <<>> /\ past = <<>>
        <5>1. <<>> \o <<>> = <<>>
          OBVIOUS
        <5> QED BY <4>1, <5>1
      <4>2. CASE state.events # <<>>
        BY <1>0, <1>1, <1>2, <1>4, <2>2, <4>2 DEF AttemptInv
      <4>3. CASE past # <<>>
        BY <1>0, <1>1, <1>2, <1>4, <2>2, <4>3 DEF AttemptInv
      <4> QED BY <4>1, <4>2, <4>3
    <3>2. Ahead(job, Gotten(past, page)) =
            ToSet(state.events) \cup ToSet(past) \cup PagesAfter(Book, page)
      BY <1>3, <1>4, <3>1 DEF Ahead, Book
    <3> QED BY <1>7, <2>2, <3>2
  <2> QED BY <1>3, <1>4, <2>1, <2>2, <2>3, LeaveCover DEF Results, tables, history, Grown
<1>9. CASE ReadPage
  <2>1. /\ pc = "page" /\ page < Len(Book) /\ past' = past \o Book[page + 1] /\ page' = page + 1
        /\ UNCHANGED <<queue, tables, pc, job, state, result, history>>
    BY <1>2, <1>4, <1>9 DEF ReadPage
  <2>2. ToSet(past') = ToSet(past) \cup ToSet(Book[page + 1])
        /\ PagesAfter(Book, page) = ToSet(Book[page + 1]) \cup PagesAfter(Book, page')
    BY <1>2, <1>4, <2>1, NextPage, ToSetOfConcat
  <2>3. NothingForgotten' /\ CompletedIsAccounted' /\ result = "none"
    BY <1>0, <2>1, CoverKept DEF tables, history, Grown, AttemptInv
  <2>4. EventsOf(job)' = EventsOf(job) /\ Book' = Book /\ UNCHANGED <<rsvps, skipped>>
    BY <2>1 DEF EventsOf, Book, queue, tables, history
  <2> QED BY <1>7, <2>1, <2>2, <2>3, <2>4 DEF CoverInv, Inserts
<1>10. ASSUME NEW all \in Seq(Events), EndOfPages(all), pc = "page",
              UNCHANGED queue, Grown,
              EventsOf(job) \subseteq
                rsvps' \cup skipped'[job] \cup ToSet(state.events) \cup ToSet(all)
       PROVE  CoverInv'
  <2>1. Gotten(all, 0) \in State
        /\ ToSet(Gotten(all, 0).events) = ToSet(state.events) \cup ToSet(all)
    BY <1>3
  <2>2. CASE all # <<>>
    <3>1. Goto(Gotten(all, 0), "members")
      BY <1>10, <2>2 DEF EndOfPages
    <3> QED BY <1>10, <2>1, <3>1, GotoCover DEF Inserts
  <2>3. CASE all = <<>>
    <3>1. Leave(Gotten(all, 0), "completed")
      BY <1>10, <2>3 DEF EndOfPages
    <3> QED BY <1>10, <2>1, <3>1, LeaveCover DEF Results
  <2> QED BY <2>2, <2>3
<1>11. CASE ReadLastPage
  <2> DEFINE all == past \o Book[page + 1]
  <2>1. /\ pc = "page" /\ page + 1 = Len(Book) /\ EndOfPages(all)
        /\ UNCHANGED <<queue, tables, history>>
    BY <1>11 DEF ReadLastPage
  <2>2. page < Len(Book)
    BY <1>2, <1>4, <2>1
  <2>3. Book[page + 1] \in Seq(Events) /\ PagesAfter(Book, page) = ToSet(Book[page + 1])
    <3>1. /\ Book[page + 1] \in Seq(Events)
          /\ PagesAfter(Book, page) = ToSet(Book[page + 1]) \cup PagesAfter(Book, page + 1)
      BY <1>2, <1>4, <2>2, NextPage
    <3>2. PagesAfter(Book, page + 1) = {}
      BY <1>2, <2>1, NoPageLeft
    <3> QED BY <3>1, <3>2
  <2>4. all \in Seq(Events) /\ ToSet(all) = ToSet(past) \cup ToSet(Book[page + 1])
    BY <1>4, <2>3, ToSetOfConcat
  <2>5. EventsOf(job) \subseteq rsvps \cup skipped[job] \cup ToSet(state.events) \cup ToSet(all)
    BY <1>7, <2>1, <2>3, <2>4
  <2> HIDE DEF all
  <2> QED BY <1>10, <2>1, <2>4, <2>5 DEF tables, history, Grown
<1>12. CASE ReadErroredPage
  <2> DEFINE all == past \o Book[page + 1]
  <2>1. /\ pc = "page" /\ UNCHANGED <<queue, tables>>
        /\ \/ EndOfPages(past) /\ Skip(PagesAfter(Book, page))
           \/ EndOfPages(all) /\ Skip(PagesAfter(Book, page + 1))
    BY <1>12 DEF ReadErroredPage
  <2>2. page < Len(Book)
    BY <1>0, <1>1, <1>2, <2>1 DEF AttemptInv
  <2>3. /\ Book[page + 1] \in Seq(Events)
        /\ PagesAfter(Book, page) = ToSet(Book[page + 1]) \cup PagesAfter(Book, page + 1)
    BY <1>2, <1>4, <2>2, NextPage
  <2>4. all \in Seq(Events) /\ ToSet(all) = ToSet(past) \cup ToSet(Book[page + 1])
    BY <1>4, <2>3, ToSetOfConcat
  <2>5. PagesAfter(Book, page) \subseteq Events /\ PagesAfter(Book, page + 1) \subseteq Events
    BY <1>2, <1>4, PagesTyped
  <2>6. rsvps' = rsvps
    BY <2>1 DEF tables
  <2> HIDE DEF all
  <2>7. CASE EndOfPages(past) /\ Skip(PagesAfter(Book, page))
    <3>1. Grown /\ skipped'[job] = skipped[job] \cup PagesAfter(Book, page)
      BY <1>0, <2>5, <2>6, <2>7, SkipTyped DEF Grown
    <3> QED BY <1>4, <1>7, <1>10, <2>1, <2>6, <2>7, <3>1
  <2>8. CASE EndOfPages(all) /\ Skip(PagesAfter(Book, page + 1))
    <3>1. Grown /\ skipped'[job] = skipped[job] \cup PagesAfter(Book, page + 1)
      BY <1>0, <2>5, <2>6, <2>8, SkipTyped DEF Grown
    <3>2. EventsOf(job) \subseteq rsvps' \cup skipped'[job] \cup ToSet(state.events) \cup ToSet(all)
      BY <1>7, <2>1, <2>3, <2>4, <2>6, <3>1
    <3> QED BY <1>10, <2>1, <2>4, <2>8, <3>1, <3>2
  <2> QED BY <2>1, <2>7, <2>8
<1> QED BY <1>5, <1>6, <1>8, <1>9, <1>11, <1>12

LEMMA EventLoopCover ==
  ASSUME SavedStateInv, CoverInv,
         \/ EventMembersFail \/ GetEventMembers \/ GetErroredMembers
         \/ InsertMembers \/ InsertEvents \/ InsertEventRSVPs \/ InsertFails
  PROVE  CoverInv'
<1>0. TypeOK /\ AttemptInv
  BY DEF SavedStateInv
<1>1. /\ state \in State /\ state.events \in Seq(Events)
      /\ state.members \in SUBSET Pages /\ state.memberCursor \in 0..MemberPages - 1
      /\ MemberPages \in Nat \ {0}
  BY <1>0, StateFields, ImportAssumption DEF TypeOK
<1>2. pc \in {"members"} \cup Inserts
  BY DEF EventMembersFail, GetEventMembers, GetErroredMembers, InsertMembers, InsertEvents,
         InsertEventRSVPs, InsertFails, Inserts
<1>3. /\ EventsOf(job) \subseteq rsvps \cup skipped[job] \cup ToSet(state.events)
      /\ state.events # <<>> /\ state.eventCursor = 0
  BY <1>0, <1>2 DEF CoverInv, AttemptInv
<1>4. CASE EventMembersFail
  <2>1. PICK k \in state.memberCursor..MemberPages - 1 :
          Leave([state EXCEPT !.members = @ \cup state.memberCursor + 1..k,
                              !.memberCursor = k], "pending")
    BY <1>4 DEF EventMembersFail
  <2> DEFINE s == [state EXCEPT !.members = @ \cup state.memberCursor + 1..k,
                                !.memberCursor = k]
  <2>2. s \in State /\ s.events = state.events
    <3>1. state.memberCursor + 1..k \subseteq Pages /\ k \in 0..MemberPages - 1
      BY <1>1 DEF Pages
    <3> QED BY <1>1, <3>1 DEF State
  <2>3. Leave(s, "pending") /\ UNCHANGED <<queue, tables, history>>
    BY <1>4, <2>1 DEF EventMembersFail
  <2> HIDE DEF s
  <2>4. ToSet(state.events) \subseteq Ahead(job, s)
    BY <2>2 DEF Ahead
  <2> QED BY <1>3, <2>2, <2>3, <2>4, LeaveCover DEF Results, tables, history, Grown
<1>5. CASE GetEventMembers
  <2> DEFINE s == [state EXCEPT !.members = @ \cup state.memberCursor + 1..MemberPages,
                                !.memberCursor = 0]
  <2>1. s \in State /\ s.events = state.events
    <3>1. state.memberCursor + 1..MemberPages \subseteq Pages /\ 0 \in 0..MemberPages - 1
      BY <1>1 DEF Pages
    <3> QED BY <1>1, <3>1 DEF State
  <2>2. pc = "members" /\ Goto(s, "insertMembers") /\ UNCHANGED <<queue, tables, history>>
    BY <1>5 DEF GetEventMembers
  <2> HIDE DEF s
  <2> QED BY <1>3, <2>1, <2>2, GotoCover DEF Inserts, tables, history, Grown
<1>6. CASE InsertMembers \/ InsertEvents
  <2>1. /\ pc \notin {"idle", "update"} /\ UNCHANGED <<queue, rsvps, history>>
        /\ Goto(state, "insertEvents") \/ Goto(state, "insertRSVPs")
    BY <1>6 DEF InsertMembers, InsertEvents
  <2> QED BY <1>1, <1>3, <2>1, GotoCover DEF Inserts, history, Grown
<1>7. CASE InsertEventRSVPs
  <2> DEFINE s == [state EXCEPT !.events = Tail(@), !.members = {}, !.memberCursor = 0]
  <2>1. /\ pc = "insertRSVPs" /\ UNCHANGED <<queue, history>>
        /\ rsvps' = rsvps \cup {First}
        /\ IF s.events = <<>> THEN Leave(s, "completed") ELSE Goto(s, "members")
    BY <1>7 DEF InsertEventRSVPs
  <2>2. /\ Tail(state.events) \in Seq(Events)
        /\ ToSet(state.events) = {First} \cup ToSet(Tail(state.events))
    BY <1>1, <1>3, HeadAndTail DEF First
  <2>3. s \in State /\ s.events = Tail(state.events)
    <3>1. 0 \in 0..MemberPages - 1 /\ {} \in SUBSET Pages
      BY <1>1
    <3> QED BY <1>1, <2>2, <3>1 DEF State
  <2> HIDE DEF s
  <2>4. EventsOf(job) \subseteq rsvps' \cup skipped'[job] \cup ToSet(s.events) /\ Grown
    BY <1>3, <2>1, <2>2, <2>3 DEF history, Grown
  <2>5. CASE s.events = <<>>
    BY <2>1, <2>3, <2>4, <2>5, ToSetOfEmpty, LeaveCover DEF Results
  <2>6. CASE s.events # <<>>
    BY <2>1, <2>3, <2>4, <2>6, GotoCover DEF Inserts
  <2> QED BY <2>5, <2>6
<1>8. CASE InsertFails
  BY <1>1, <1>8, LeaveCover DEF InsertFails, Results, tables, history, Grown
<1>9. CASE GetErroredMembers
  <2>1. PICK k \in state.memberCursor..MemberPages - 1 :
          Goto([state EXCEPT !.members = @ \cup state.memberCursor + 1..k,
                             !.memberCursor = 0], "insertMembers")
    BY <1>9 DEF GetErroredMembers
  <2> DEFINE s == [state EXCEPT !.members = @ \cup state.memberCursor + 1..k,
                                !.memberCursor = 0]
  <2>2. s \in State /\ s.events = state.events
    <3>1. state.memberCursor + 1..k \subseteq Pages /\ 0 \in 0..MemberPages - 1
      BY <1>1 DEF Pages
    <3> QED BY <1>1, <3>1 DEF State
  <2>3. pc = "members" /\ UNCHANGED <<queue, tables, skipped>>
    BY <1>9 DEF GetErroredMembers
  <2>4. Goto(s, "insertMembers")
    BY <2>1
  <2> HIDE DEF s
  <2> QED BY <1>3, <2>2, <2>3, <2>4, GotoCover DEF Inserts, tables, Grown
<1> QED BY <1>4, <1>5, <1>6, <1>7, <1>8, <1>9

\* Where each event of each club is, at every step.
LEMMA Cover == Spec => []CoverInv
<1>1. Init => CoverInv
  <2> SUFFICES ASSUME Init PROVE CoverInv
    OBVIOUS
  <2> QED BY DEF Init, CoverInv, NothingForgotten, CompletedIsAccounted, Inserts
<1>2. CoverInv /\ UNCHANGED vars => CoverInv'
  BY DEF CoverInv, NothingForgotten, CompletedIsAccounted, vars, queue, tables, importer,
         history, Book, EventsOf, Ahead
<1>3. SavedStateInv /\ CoverInv /\ Next => CoverInv'
  BY QueueCover, PastEventsCover, EventLoopCover DEF Next, Importer, Failure
<1> QED BY <1>1, <1>2, <1>3, SavedStates, PTL DEF Spec

\* Whatever fails and wherever the process stops, each past event of a club
\* whose job is pending is imported, the saved state still leads to it, or a
\* lost cursor or an answer with errors hid its page from an attempt.
THEOREM NothingIsForgotten == Spec => []NothingForgotten
<1>1. CoverInv => NothingForgotten
  BY DEF CoverInv
<1> QED BY <1>1, Cover, PTL

\* What a completed job has not imported was hidden so too, or is left in the
\* state the job was saved with: there is no other way to miss an event.
THEOREM CompletedAccounts == Spec => []CompletedIsAccounted
<1>1. CoverInv => CompletedIsAccounted
  BY DEF CoverInv
<1> QED BY <1>1, Cover, PTL
=============================================================================
