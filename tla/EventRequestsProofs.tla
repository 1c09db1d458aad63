------------------------- MODULE EventRequestsProofs -------------------------
(***************************************************************************)
(* Proofs about EventRequests.                                             *)
(*                                                                         *)
(* Of a finished event that lacks RSVPs, either someone is about to store  *)
(* them or an import was stopped before it did.  The bulk import is the    *)
(* hard case: it may store an event it read without its RSVPs, but then    *)
(* the row was finished before, and the goroutine that made it so still    *)
(* holds all RSVPs.                                                        *)
(*                                                                         *)
(* The members are stored by the calls of InsertMembers of all goroutines  *)
(* (T, MemberTable): what is left of a batch is its end, what is not left  *)
(* is stored, and no name is lost to a placeholder.                        *)
(***************************************************************************)
EXTENDS EventRequests, FiniteSetTheorems, TLAPS

-----------------------------------------------------------------------------
(* Induction over an index, as far as the lists of members need it. *)

LEMMA LeastIndex ==
  ASSUME NEW A \in SUBSET Nat, A # {}
  PROVE  \E m \in A : \A k \in A : m <= k
<1>1. PICK m \in A : \A k \in A : ~(<<k, m>> \in OpToRel(<, Nat))
  BY NatLessThanWellFounded, WFMin
<1>2. \A k \in A : k \in Nat /\ m \in Nat
  OBVIOUS
<1>3. \A k \in A : ~(k < m)
  BY <1>1, <1>2 DEF OpToRel
<1> QED BY <1>2, <1>3

Iterated(f, a, G, N) == f[0] = a /\ \A n \in 1..N : f[n] = G[<<f[n - 1], n>>]

\* A function on S, applied again and again.
LEMMA Iterates ==
  ASSUME NEW S, NEW N \in Nat, NEW a \in S, NEW G \in [S \X (1..N) -> S]
  PROVE  \E f \in [0..N -> S] : Iterated(f, a, G, N)
<1> DEFINE Missing == {k \in 0..N : ~ \E f \in [0..k -> S] : Iterated(f, a, G, k)}
<1>1. ASSUME Missing # {} PROVE FALSE
  <2>1. Missing \in SUBSET Nat
    OBVIOUS
  <2>2. PICK k \in Missing : \A j \in Missing : k <= j
    BY <1>1, <2>1, LeastIndex
  <2>3. k \in 0..N /\ ~ \E f \in [0..k -> S] : Iterated(f, a, G, k)
    OBVIOUS
  <2>4. CASE k = 0
    <3>1. [n \in 0..0 |-> a] \in [0..0 -> S] /\ Iterated([n \in 0..0 |-> a], a, G, 0)
      BY DEF Iterated
    <3> QED BY <2>3, <2>4, <3>1
  <2>5. CASE k > 0
    <3>1. k - 1 \in 0..N /\ k - 1 \notin Missing
      <4>1. ~(k <= k - 1) /\ k - 1 \in 0..N
        BY <2>3, <2>5
      <4> QED BY <2>2, <4>1
    <3>2. PICK f \in [0..k - 1 -> S] : Iterated(f, a, G, k - 1)
      BY <3>1
    <3> DEFINE g == [n \in 0..k |-> IF n = k THEN G[<<f[k - 1], k>>] ELSE f[n]]
    <3>3. k \in 1..N /\ k - 1 \in 0..k - 1
      BY <2>3, <2>5
    <3>4. g \in [0..k -> S]
      <4>1. G[<<f[k - 1], k>>] \in S
        BY <3>3
      <4>2. \A n \in 0..k : n = k \/ n \in 0..k - 1
        BY <3>3
      <4> QED BY <4>1, <4>2
    <3>5. Iterated(g, a, G, k)
      <4>1. \A n \in 1..k : (n = k \/ n \in 1..k - 1) /\ n - 1 \in 0..k /\ n - 1 # k /\ n \in 0..k
        BY <3>3
      <4>2. 0 \in 0..k /\ 0 # k
        BY <3>3
      <4>3. g[0] = a
        BY <3>2, <4>2 DEF Iterated
      <4>4. ASSUME NEW n \in 1..k PROVE g[n] = G[<<g[n - 1], n>>]
        BY <3>2, <4>1 DEF Iterated
      <4> QED BY <4>3, <4>4 DEF Iterated
    <3> QED BY <2>3, <3>4, <3>5
  <2> QED BY <2>3, <2>4, <2>5
<1>2. N \in 0..N /\ N \notin Missing
  BY <1>1
<1> QED BY <1>2

\* What stays in S in each step is in S at the end.
LEMMA Stays ==
  ASSUME NEW S, NEW N \in Nat, NEW F, F[0] \in S,
         \A n \in 1..N : F[n - 1] \in S => F[n] \in S
  PROVE  F[N] \in S
<1> DEFINE Out == {k \in 0..N : F[k] \notin S}
<1>1. ASSUME Out # {} PROVE FALSE
  <2>1. Out \in SUBSET Nat
    OBVIOUS
  <2>2. PICK k \in Out : \A j \in Out : k <= j
    BY <1>1, <2>1, LeastIndex
  <2>3. k \in 1..N /\ k - 1 \in 0..N /\ ~(k <= k - 1)
    <3>1. k \in 0..N /\ k # 0
      OBVIOUS
    <3> QED BY <3>1
  <2>4. F[k - 1] \in S
    BY <2>2, <2>3
  <2>5. F[k] \in S
    BY <2>3, <2>4
  <2> QED BY <2>5
<1>2. N \in 0..N /\ N \notin Out
  BY <1>1
<1> QED BY <1>2

-----------------------------------------------------------------------------
(* Lists of members. *)

LEMMA Appended ==
  ASSUME NEW S, NEW s \in Seq(S), NEW e \in S
  PROVE  Append(s, e) \in Seq(S) /\ ToSet(Append(s, e)) = ToSet(s) \cup {e}
<1>1. /\ Append(s, e) \in Seq(S) /\ Len(s) \in Nat
      /\ DOMAIN Append(s, e) = 1..(Len(s) + 1) /\ DOMAIN s = 1..Len(s)
      /\ \A i \in 1..Len(s) : Append(s, e)[i] = s[i]
      /\ Append(s, e)[Len(s) + 1] = e
  OBVIOUS
<1>2. /\ \A i \in 1..(Len(s) + 1) : i \in 1..Len(s) \/ i = Len(s) + 1
      /\ 1..Len(s) \subseteq 1..(Len(s) + 1) /\ Len(s) + 1 \in 1..(Len(s) + 1)
  BY <1>1
<1> QED BY <1>1, <1>2 DEF ToSet

LEMMA EntryTypes ==
  /\ \A m \in Members : Named(m) \in T!Entry /\ Placeholder(m) \in T!Entry
  /\ \A ms \in Seq(Members) :
       Entries(Named, ms) \in Seq(T!Entry) /\ Entries(Placeholder, ms) \in Seq(T!Entry)
<1>1. \A m \in Members : Named(m) \in T!Entry /\ Placeholder(m) \in T!Entry
  BY DEF Named, Placeholder, T!Entry
<1>2. ASSUME NEW ms \in Seq(Members)
      PROVE  Entries(Named, ms) \in Seq(T!Entry) /\ Entries(Placeholder, ms) \in Seq(T!Entry)
  <2>1. DOMAIN ms = 1..Len(ms) /\ Len(ms) \in Nat /\ \A i \in 1..Len(ms) : ms[i] \in Members
    OBVIOUS
  <2>2. \A f \in [1..Len(ms) -> T!Entry] : f \in Seq(T!Entry)
    BY <2>1
  <2> QED BY <1>1, <2>1, <2>2 DEF Entries
<1> QED BY <1>1, <1>2

\* The lists that begin with what is there.
Extensions(entries) == {s \in Seq(T!Entry) : ToSet(entries) \subseteq ToSet(s)}

LEMMA AddMissingExtends ==
  ASSUME NEW entries \in Seq(T!Entry), NEW more \in Seq(T!Entry)
  PROVE  AddMissing(entries, more) \in Extensions(entries)
<1> DEFINE N == Len(more)
           S == Extensions(entries)
           Is(f) == f = [n \in 0..N |->
                           IF n = 0 THEN entries
                           ELSE IF HasMember(f[n - 1], more[n].id) THEN f[n - 1]
                           ELSE Append(f[n - 1], more[n])]
           F == Adding(entries, more)
           G == [p \in S \X (1..N) |->
                   IF HasMember(p[1], more[p[2]].id) THEN p[1] ELSE Append(p[1], more[p[2]])]
<1>1. F = CHOOSE f : Is(f)
  BY DEF Adding
<1>2. N \in Nat /\ \A n \in 1..N : more[n] \in T!Entry
  OBVIOUS
<1>3. entries \in S
  BY DEF Extensions
<1>4. \A s \in S, n \in 1..N : s \in S /\ Append(s, more[n]) \in S
  BY <1>2, Appended DEF Extensions
<1> HIDE DEF N, S, F
<1>5. /\ G \in [S \X (1..N) -> S]
      /\ \A s \in S, n \in 1..N :
           G[<<s, n>>] = IF HasMember(s, more[n].id) THEN s ELSE Append(s, more[n])
  <2>1. \A p \in S \X (1..N) : p[1] \in S /\ p[2] \in 1..N /\ Append(p[1], more[p[2]]) \in S
    BY <1>4
  <2> QED BY <2>1
<1> HIDE DEF G
<1>6. PICK f \in [0..N -> S] : Iterated(f, entries, G, N)
  BY <1>2, <1>3, <1>5, Iterates
<1>7. Is(f)
  <2>1. \A n \in 1..N : n - 1 \in 0..N
    BY <1>2
  <2>2. \A n \in 0..N : n = 0 \/ n \in 1..N
    BY <1>2
  <2>3. \A n \in 0..N : f[n] = IF n = 0 THEN entries
                        ELSE IF HasMember(f[n - 1], more[n].id) THEN f[n - 1]
                        ELSE Append(f[n - 1], more[n])
    BY <1>5, <1>6, <2>1, <2>2 DEF Iterated
  <2> QED BY <2>3
<1>8. Is(F)
  BY <1>1, <1>7
<1>9. \A n \in 0..N : F[n] = IF n = 0 THEN entries
                      ELSE IF HasMember(F[n - 1], more[n].id) THEN F[n - 1]
                      ELSE Append(F[n - 1], more[n])
  BY <1>8, Zenon
<1>10. F[0] \in S /\ \A n \in 1..N : F[n - 1] \in S => F[n] \in S
  <2>1. 0 \in 0..N /\ \A n \in 1..N : n \in 0..N /\ n # 0
    BY <1>2
  <2> QED BY <1>3, <1>4, <1>9, <2>1
<1>11. F[N] \in S
  BY <1>2, <1>10, Stays
<1> QED BY <1>11 DEF AddMissing, F, N, S

\* What a goroutine has fetched.
Fetched(event) == event.members \in Seq(T!Entry) /\ event.rsvps \in Seq(Members)

LEMMA AllMembersTyped ==
  ASSUME NEW r \in Requests, done[r] \in Seq(Events), \A e \in Events : Fetched(got[<<r, e>>])
  PROVE  AllMembers(r) \in Seq(T!Entry)
<1> DEFINE N == Len(done[r])
           S == Seq(T!Entry)
           Is(f) == f = [i \in 0..N |-> IF i = 0 THEN <<>> ELSE AddMissing(f[i - 1], Meets(r, i))]
           F == Collecting(r)
           G == [p \in S \X (1..N) |-> AddMissing(p[1], Meets(r, p[2]))]
<1>1. F = CHOOSE f : Is(f)
  BY DEF Collecting
<1>2. N \in Nat /\ \A i \in 1..N : done[r][i] \in Events
  OBVIOUS
<1>3. <<>> \in S
  OBVIOUS
<1>4. ASSUME NEW s \in S, NEW i \in 1..N PROVE AddMissing(s, Meets(r, i)) \in S
  <2> DEFINE event == got[<<r, done[r][i]>>]
             creator == IF i = 1 THEN <<Named(Organizer)>> ELSE <<>>
  <2>1. event.members \in Seq(T!Entry) /\ Entries(Placeholder, event.rsvps) \in Seq(T!Entry)
    BY <1>2, EntryTypes DEF Fetched
  <2>2. creator \in Seq(T!Entry)
    <3>1. Organizer \in Members
      BY RequestAssumption
    <3>2. Named(Organizer) \in T!Entry
      BY <3>1, EntryTypes
    <3>3. \A x \in T!Entry : <<x>> \in Seq(T!Entry) /\ <<>> \in Seq(T!Entry)
      OBVIOUS
    <3> QED BY <3>2, <3>3
  <2>3. Meets(r, i) = event.members \o creator \o Entries(Placeholder, event.rsvps)
    BY DEF Meets
  <2> HIDE DEF event, creator
  <2>4. Meets(r, i) \in Seq(T!Entry)
    BY <2>1, <2>2, <2>3
  <2> QED BY <2>4, AddMissingExtends DEF Extensions
<1> HIDE DEF N, S, F
<1>5. /\ G \in [S \X (1..N) -> S]
      /\ \A s \in S, i \in 1..N : G[<<s, i>>] = AddMissing(s, Meets(r, i))
  BY <1>4
<1> HIDE DEF G
<1>6. PICK f \in [0..N -> S] : Iterated(f, <<>>, G, N)
  BY <1>2, <1>3, <1>5, Iterates
<1>7. Is(f)
  <2>1. \A i \in 1..N : i - 1 \in 0..N
    BY <1>2
  <2>2. \A i \in 0..N : i = 0 \/ i \in 1..N
    BY <1>2
  <2>3. \A i \in 0..N : f[i] = IF i = 0 THEN <<>> ELSE AddMissing(f[i - 1], Meets(r, i))
    BY <1>5, <1>6, <2>1, <2>2 DEF Iterated
  <2> QED BY <2>3
<1>8. Is(F)
  BY <1>1, <1>7
<1>9. \A i \in 0..N : F[i] = IF i = 0 THEN <<>> ELSE AddMissing(F[i - 1], Meets(r, i))
  BY <1>8, Zenon
<1>10. F[0] \in S /\ \A i \in 1..N : F[i - 1] \in S => F[i] \in S
  <2>1. 0 \in 0..N /\ \A i \in 1..N : i \in 0..N /\ i # 0
    BY <1>2
  <2> QED BY <1>3, <1>4, <1>9, <2>1
<1>11. F[N] \in S
  BY <1>2, <1>10, Stays
<1> QED BY <1>11 DEF AllMembers, F, N, S

\* The RSVPs of an event in the database, as a list.
LEMMA AsList ==
  ASSUME NEW A \in SUBSET Members
  PROVE  SetToSeq(A) \in Seq(Members) /\ ToSet(SetToSeq(A)) = A
<1> DEFINE n == Cardinality(A)
<1>1. IsFiniteSet(A)
  BY FS_Subset, RequestAssumption
<1>2. n \in Nat /\ ExistsBijection(1..n, A)
  BY <1>1, FS_CardinalityType
<1> HIDE DEF n
<1>3. PICK f : f \in Bijection(1..n, A)
  BY <1>2 DEF ExistsBijection
<1>4. f \in [1..n -> A] /\ IsInjective(f)
  BY <1>3 DEF Bijection, Injection, IsInjective
<1>5. SetToSeq(A) \in [1..n -> A] /\ IsInjective(SetToSeq(A))
  BY <1>4 DEF SetToSeq, n
<1> DEFINE s == SetToSeq(A)
<1> HIDE DEF s
<1>6. s \in [1..n -> A] /\ IsInjective(s)
  BY <1>5 DEF s
<1>7. s \in Seq(Members) /\ DOMAIN s = 1..n
  BY <1>2, <1>6
<1>8. \A x \in A : \E i \in 1..n : s[i] = x
  <2> DEFINE R == {s[i] : i \in 1..n}
  <2>1. s \in Bijection(1..n, R)
    <3>1. s \in [1..n -> R]
      BY <1>6
    <3> QED BY <1>6, <3>1 DEF Bijection, Injection, Surjection, IsInjective
  <2>2. R \subseteq A
    BY <1>6
  <2>3. Cardinality(R) = n
    BY <1>2, <2>1, FS_CountingElements DEF ExistsBijection
  <2>4. R = A
    BY <1>1, <2>2, <2>3, FS_Subset DEF n
  <2> QED BY <2>4
<1> QED BY <1>6, <1>7, <1>8 DEF ToSet, s

-----------------------------------------------------------------------------
(* Finished events. *)

\* A goroutine holds all RSVPs of an event.
Holds(g, e) == Complete(e, ToSet(got[<<g[1], e>>].rsvps))

\* Some goroutine is about to store all RSVPs of an event.
Coming(e) == \E g \in Goroutines : pc[g] = "rsvps" /\ e \in Writes(g) /\ Holds(g, e)

Calls == {"wait", "look", "read", "get", "update", "creator", "members", "rsvps",
          "ok", "skipped", "error"}

Shape ==
  /\ pc \in [Goroutines -> Calls]
  /\ got = [g \in Goroutines |-> got[g]]
  /\ done \in [Requests -> Seq(Events)]
  /\ row \in [Events -> {"absent", "open", "finished"}]
  /\ rsvp = [e \in Events |-> rsvp[e]]

\* Only an event that has ended is finished, so it stays finished.
RowsInv == \A e \in Events : row[e] = "finished" => e \in Ended

\* What a goroutine knows of its event.
WorkerInv ==
  \A r \in Requests, e \in Events :
    /\ pc[<<r, e>>] \in {"creator", "members", "rsvps"} => Holds(<<r, e>>, e)
    /\ pc[<<r, e>>] = "read" => row[e] = "finished"
    /\ pc[<<r, e>>] = "ok" => Holds(<<r, e>>, e) \/ row[e] = "finished"
    /\ e \in ToSet(done[r]) => pc[<<r, e>>] = "ok"

RSVPsInv ==
  \A e \in Events :
    row[e] = "finished" /\ ~Complete(e, rsvp[e]) => e \in cut \/ Coming(e)

RequestInv == Shape /\ RowsInv /\ WorkerInv /\ RSVPsInv

LEMMA GoroutineParts ==
  /\ \A r \in Requests, e \in Events : <<r, e>> \in Goroutines
  /\ \A r \in Imports : <<r, "bulk">> \in Goroutines
  /\ \A g \in Goroutines :
       /\ g[1] \in Requests
       /\ \/ g[2] = "bulk"
          \/ g[2] # "bulk" /\ g[2] \in Events /\ g = <<g[1], g[2]>>
BY RequestAssumption DEF Goroutines, Requests

LEMMA InitInv == Init => RequestInv
<1> SUFFICES ASSUME Init PROVE RequestInv
  OBVIOUS
<1>1. Shape
  <2>1. pc \in [Goroutines -> Calls]
    BY DEF Init, Calls
  <2>2. done \in [Requests -> Seq(Events)]
    <3>1. <<>> \in Seq(Events)
      OBVIOUS
    <3> QED BY <3>1 DEF Init
  <2>3. got = [g \in Goroutines |-> got[g]] /\ rsvp = [e \in Events |-> rsvp[e]]
    BY DEF Init
  <2>4. row \in [Events -> {"absent", "open", "finished"}]
    BY DEF Init
  <2> QED BY <2>1, <2>2, <2>3, <2>4 DEF Shape
<1>2. RowsInv
  BY DEF Init, RowsInv
<1>3. ASSUME NEW r \in Requests, NEW e \in Events
      PROVE  pc[<<r, e>>] = "look" /\ ToSet(done[r]) = {}
  <2>1. <<r, e>> \in Goroutines /\ <<r, e>>[2] # "bulk"
    BY GoroutineParts, RequestAssumption
  <2>2. pc[<<r, e>>] = "look"
    BY <2>1 DEF Init
  <2>3. done[r] = <<>>
    BY DEF Init
  <2>4. ToSet(<<>>) = {}
    BY DEF ToSet
  <2> QED BY <2>2, <2>3, <2>4
<1>4. WorkerInv
  BY <1>3 DEF WorkerInv
<1>5. RSVPsInv
  BY DEF Init, RSVPsInv
<1> QED BY <1>1, <1>2, <1>4, <1>5 DEF RequestInv

\* A step of control: one goroutine goes on without storing or collecting
\* anything, or ends with an error and leaves its events to cut.
LEMMA ControlStep ==
  ASSUME RequestInv, NEW g \in Goroutines, NEW v \in Calls \ {"ok", "rsvps"},
         pc' = [pc EXCEPT ![g] = v], pc[g] # "ok",
         UNCHANGED <<row, rsvp, got, done>>,
         cut \subseteq cut', pc[g] = "rsvps" => Writes(g) \subseteq cut',
         v = "read" => g[2] \in Events /\ row[g[2]] = "finished",
         v \in {"creator", "members"} /\ g[2] # "bulk" => pc[g] \in {"creator", "members"}
  PROVE  RequestInv'
<1>1. Shape /\ RowsInv /\ WorkerInv /\ RSVPsInv
  BY DEF RequestInv
<1>2. Shape'
  BY <1>1 DEF Shape
<1>3. RowsInv'
  BY <1>1 DEF RowsInv
<1>4. WorkerInv'
  <2> SUFFICES ASSUME NEW r \in Requests, NEW e \in Events
               PROVE  /\ pc'[<<r, e>>] \in {"creator", "members", "rsvps"} => Holds(<<r, e>>, e)
                      /\ pc'[<<r, e>>] = "read" => row[e] = "finished"
                      /\ pc'[<<r, e>>] = "ok" => Holds(<<r, e>>, e) \/ row[e] = "finished"
                      /\ e \in ToSet(done[r]) => pc'[<<r, e>>] = "ok"
    BY DEF WorkerInv, Holds
  <2>1. <<r, e>> \in Goroutines /\ <<r, e>>[2] = e /\ e # "bulk"
    BY GoroutineParts, RequestAssumption
  <2>2. CASE <<r, e>> = g
    <3>1. pc'[<<r, e>>] = v
      BY <1>1, <2>2 DEF Shape
    <3>2. e \notin ToSet(done[r])
      BY <1>1, <2>2 DEF WorkerInv
    <3>3. v \in {"creator", "members"} => Holds(<<r, e>>, e)
      BY <1>1, <2>1, <2>2 DEF WorkerInv
    <3> QED BY <2>1, <2>2, <3>1, <3>2, <3>3
  <2>3. CASE <<r, e>> # g
    <3>1. pc'[<<r, e>>] = pc[<<r, e>>]
      BY <1>1, <2>1, <2>3 DEF Shape
    <3> QED BY <1>1, <3>1 DEF WorkerInv
  <2> QED BY <2>2, <2>3
<1>5. RSVPsInv'
  <2> SUFFICES ASSUME NEW e \in Events, row[e] = "finished", ~Complete(e, rsvp[e]), e \notin cut'
               PROVE  Coming(e)'
    BY DEF RSVPsInv
  <2>1. PICK h \in Goroutines : pc[h] = "rsvps" /\ e \in Writes(h) /\ Holds(h, e)
    BY <1>1 DEF RSVPsInv, Coming
  <2>2. h # g
    BY <2>1
  <2>3. pc'[h] = "rsvps"
    BY <1>1, <2>1, <2>2 DEF Shape
  <2> QED BY <2>1, <2>3 DEF Coming, Writes, Holds
<1> QED BY <1>2, <1>3, <1>4, <1>5 DEF RequestInv

\* A goroutine has fetched its event: from Campfire with all its RSVPs, or
\* from a finished row.
LEMMA FetchStep ==
  ASSUME RequestInv, NEW r \in Requests, NEW e \in Events, NEW event, NEW v \in {"ok", "creator"},
         pc' = [pc EXCEPT ![<<r, e>>] = v],
         pc[<<r, e>>] \in {"read", "get", "update"},
         got' = [got EXCEPT ![<<r, e>>] = event],
         \/ done' = [done EXCEPT ![r] = Append(@, e)] /\ v = "ok"
         \/ done' = done,
         UNCHANGED <<row, rsvp, cut>>,
         Complete(e, ToSet(event.rsvps)) \/ (v = "ok" /\ row[e] = "finished")
  PROVE  RequestInv'
<1>1. Shape /\ RowsInv /\ WorkerInv /\ RSVPsInv
  BY DEF RequestInv
<1>2. \A r1 \in Requests, e1 \in Events :
        <<r1, e1>> \in Goroutines /\ <<r1, e1>>[2] # "bulk" /\ <<r1, e1>>[1] = r1
  BY GoroutineParts, RequestAssumption
<1>3. \A r1 \in Requests : ToSet(done'[r1]) \in {ToSet(done[r1]), ToSet(done[r1]) \cup {e}}
                            /\ (v = "creator" \/ r1 # r => ToSet(done'[r1]) = ToSet(done[r1]))
                            /\ ToSet(done[r1]) \subseteq ToSet(done'[r1])
                            /\ done'[r1] \in Seq(Events)
  <2> SUFFICES ASSUME NEW r1 \in Requests
               PROVE  /\ ToSet(done'[r1]) \in {ToSet(done[r1]), ToSet(done[r1]) \cup {e}}
                      /\ (v = "creator" \/ r1 # r => ToSet(done'[r1]) = ToSet(done[r1]))
                      /\ ToSet(done[r1]) \subseteq ToSet(done'[r1])
                      /\ done'[r1] \in Seq(Events)
    OBVIOUS
  <2>1. done[r1] \in Seq(Events)
    BY <1>1 DEF Shape
  <2>2. \/ done'[r1] = done[r1]
        \/ done'[r1] = Append(done[r1], e) /\ r1 = r /\ v = "ok"
    BY <1>1 DEF Shape
  <2>3. Append(done[r1], e) \in Seq(Events) /\ ToSet(Append(done[r1], e)) = ToSet(done[r1]) \cup {e}
    BY <2>1, Appended
  <2> QED BY <2>1, <2>2, <2>3
<1>4. \A h \in Goroutines : h # <<r, e>> => pc'[h] = pc[h] /\ got'[h] = got[h]
  BY <1>1 DEF Shape
<1>5. pc'[<<r, e>>] = v /\ got'[<<r, e>>] = event
  BY <1>1, <1>2 DEF Shape
<1>6. Shape'
  <2>1. done' \in [Requests -> Seq(Events)]
    BY <1>1, <1>3 DEF Shape
  <2>2. pc' \in [Goroutines -> Calls]
    BY <1>1 DEF Shape, Calls
  <2>3. got' = [g \in Goroutines |-> got'[g]]
    BY <1>1 DEF Shape
  <2> QED BY <1>1, <2>1, <2>2, <2>3 DEF Shape
<1>7. RowsInv'
  BY <1>1 DEF RowsInv
<1>8. WorkerInv'
  <2> SUFFICES ASSUME NEW r1 \in Requests, NEW e1 \in Events
               PROVE  LET h == <<r1, e1>> IN
                      /\ pc'[h] \in {"creator", "members", "rsvps"} => Holds(h, e1)'
                      /\ pc'[h] = "read" => row[e1] = "finished"
                      /\ pc'[h] = "ok" => Holds(h, e1)' \/ row[e1] = "finished"
                      /\ e1 \in ToSet(done'[r1]) => pc'[h] = "ok"
    BY DEF WorkerInv
  <2>1. CASE r1 = r /\ e1 = e
    <3>1. Holds(<<r, e>>, e)' <=> Complete(e, ToSet(event.rsvps))
      BY <1>5 DEF Holds, Complete
    <3>2. e \notin ToSet(done[r])
      BY <1>1 DEF WorkerInv
    <3>3. e \in ToSet(done'[r]) => v = "ok"
      BY <1>3, <3>2
    <3> QED BY <1>5, <2>1, <3>1, <3>3
  <2>2. CASE ~(r1 = r /\ e1 = e)
    <3>1. <<r1, e1>> # <<r, e>>
      BY <2>2
    <3>2. pc'[<<r1, e1>>] = pc[<<r1, e1>>] /\ got'[<<r1, e1>>] = got[<<r1, e1>>]
      BY <1>2, <1>4, <3>1
    <3>3. Holds(<<r1, e1>>, e1)' <=> Holds(<<r1, e1>>, e1)
      BY <3>2 DEF Holds, Complete
    <3>4. e1 \in ToSet(done'[r1]) => e1 \in ToSet(done[r1])
      BY <1>3, <2>2
    <3> QED BY <1>1, <3>2, <3>3, <3>4 DEF WorkerInv
  <2> QED BY <2>1, <2>2
<1>9. RSVPsInv'
  <2> SUFFICES ASSUME NEW f \in Events, row[f] = "finished", ~Complete(f, rsvp[f]), f \notin cut
               PROVE  Coming(f)'
    BY DEF RSVPsInv, Complete
  <2>1. PICK h \in Goroutines : pc[h] = "rsvps" /\ f \in Writes(h) /\ Holds(h, f)
    BY <1>1 DEF RSVPsInv, Coming
  <2>2. h # <<r, e>> /\ h[1] \in Requests
    BY <2>1, GoroutineParts
  <2>3. pc'[h] = "rsvps"
    BY <1>4, <2>1, <2>2
  <2>4. f \in Writes(h)'
    BY <1>3, <2>1, <2>2 DEF Writes
  <2>5. <<h[1], f>> # <<r, e>>
    <3>1. CASE h[2] = "bulk"
      <4>1. f \in ToSet(done[h[1]])
        BY <2>1, <3>1 DEF Writes
      <4>2. pc[<<h[1], f>>] = "ok"
        BY <1>1, <2>2, <4>1 DEF WorkerInv
      <4> QED BY <4>2
    <3>2. CASE h[2] # "bulk"
      <4>1. h = <<h[1], h[2]>> /\ f = h[2]
        BY <2>1, <3>2, GoroutineParts DEF Writes
      <4> QED BY <2>2, <4>1
    <3> QED BY <3>1, <3>2
  <2>6. got'[<<h[1], f>>] = got[<<h[1], f>>]
    BY <1>2, <1>4, <2>2, <2>5
  <2>7. Holds(h, f)'
    BY <2>1, <2>6 DEF Holds, Complete
  <2> QED BY <2>3, <2>4, <2>7 DEF Coming
<1> QED BY <1>6, <1>7, <1>8, <1>9 DEF RequestInv

\* A row becomes finished by the hand of a goroutine that holds all RSVPs of
\* the event, or was finished before.
LEMMA InsertEventsInv ==
  ASSUME RequestInv, NEW g \in Goroutines, InsertEvents(g)
  PROVE  RequestInv'
<1>1. Shape /\ RowsInv /\ WorkerInv /\ RSVPsInv
  BY DEF RequestInv
<1>2. /\ pc[g] = "members" /\ pc' = [pc EXCEPT ![g] = "rsvps"]
      /\ row' = [e \in Events |-> IF e \notin Writes(g) THEN row[e]
                                  ELSE IF e \in Ended THEN "finished" ELSE "open"]
      /\ UNCHANGED <<rsvp, got, done, cut>>
  BY DEF InsertEvents, Goto
<1>3. \A h \in Goroutines : pc'[h] = IF h = g THEN "rsvps" ELSE pc[h]
  BY <1>1, <1>2 DEF Shape
<1>4. \A e \in Events : row[e] = "finished" => row'[e] = "finished"
  BY <1>1, <1>2 DEF RowsInv
<1>5. Shape'
  BY <1>1, <1>2 DEF Shape, Calls
<1>6. RowsInv'
  BY <1>1, <1>2 DEF RowsInv
<1>7. WorkerInv'
  <2> SUFFICES ASSUME NEW r \in Requests, NEW e \in Events
               PROVE  /\ pc'[<<r, e>>] \in {"creator", "members", "rsvps"} => Holds(<<r, e>>, e)
                      /\ pc'[<<r, e>>] = "read" => row'[e] = "finished"
                      /\ pc'[<<r, e>>] = "ok" => Holds(<<r, e>>, e) \/ row'[e] = "finished"
                      /\ e \in ToSet(done[r]) => pc'[<<r, e>>] = "ok"
    BY <1>2 DEF WorkerInv, Holds
  <2>1. <<r, e>> \in Goroutines
    BY GoroutineParts
  <2> QED BY <1>1, <1>2, <1>3, <1>4, <2>1 DEF WorkerInv
<1>8. RSVPsInv'
  <2> SUFFICES ASSUME NEW e \in Events, row'[e] = "finished", ~Complete(e, rsvp[e]), e \notin cut
               PROVE  Coming(e)'
    BY <1>2 DEF RSVPsInv, Complete
  <2>1. CASE row[e] = "finished"
    <3>1. PICK h \in Goroutines : pc[h] = "rsvps" /\ e \in Writes(h) /\ Holds(h, e)
      BY <1>1, <2>1 DEF RSVPsInv, Coming
    <3>2. pc'[h] = "rsvps"
      BY <1>3, <3>1
    <3> QED BY <1>2, <3>1, <3>2 DEF Coming, Writes, Holds
  <2>2. CASE row[e] # "finished"
    <3>1. e \in Writes(g) /\ g[1] \in Requests
      BY <1>2, <2>2, GoroutineParts
    <3>2. Holds(g, e)
      <4>1. CASE g[2] = "bulk"
        <5>1. e \in ToSet(done[g[1]])
          BY <3>1, <4>1 DEF Writes
        <5>2. Holds(<<g[1], e>>, e)
          BY <1>1, <2>2, <3>1, <5>1 DEF WorkerInv
        <5> QED BY <5>2 DEF Holds
      <4>2. CASE g[2] # "bulk"
        <5>1. g = <<g[1], g[2]>> /\ e = g[2]
          BY <3>1, <4>2, GoroutineParts DEF Writes
        <5>2. pc[<<g[1], e>>] = "members"
          BY <1>2, <5>1
        <5>3. Holds(<<g[1], e>>, e)
          BY <1>1, <3>1, <5>2 DEF WorkerInv
        <5> QED BY <5>3 DEF Holds
      <4> QED BY <4>1, <4>2
    <3> QED BY <1>2, <1>3, <3>1, <3>2 DEF Coming, Writes, Holds
  <2> QED BY <2>1, <2>2
<1> QED BY <1>5, <1>6, <1>7, <1>8 DEF RequestInv

LEMMA InsertEventRSVPsInv ==
  ASSUME RequestInv, NEW g \in Goroutines, InsertEventRSVPs(g)
  PROVE  RequestInv'
<1>1. Shape /\ RowsInv /\ WorkerInv /\ RSVPsInv
  BY DEF RequestInv
<1>2. /\ pc[g] = "rsvps" /\ pc' = [pc EXCEPT ![g] = "ok"]
      /\ rsvp' = [e \in Events |-> IF e \in Writes(g) THEN rsvp[e] \cup ToSet(got[<<g[1], e>>].rsvps)
                                   ELSE rsvp[e]]
      /\ UNCHANGED <<row, got, cut>>
      /\ \/ done' = done
         \/ done' = [done EXCEPT ![g[1]] = Append(@, g[2])] /\ g[2] # "bulk"
  <2>1. CASE g[2] = "bulk"
    BY <2>1 DEF InsertEventRSVPs, Goto
  <2>2. CASE g[2] # "bulk"
    <3>1. g = <<g[1], g[2]>>
      BY <2>2, GoroutineParts
    <3>2. Collect(g[1], g[2], got[g])
      BY <2>2 DEF InsertEventRSVPs
    <3>3. pc' = [pc EXCEPT ![g] = "ok"]
      BY <3>1, <3>2 DEF Collect, Goto
    <3> QED BY <2>2, <3>2, <3>3 DEF InsertEventRSVPs, Collect
  <2> QED BY <2>1, <2>2
<1>3. \A h \in Goroutines : pc'[h] = IF h = g THEN "ok" ELSE pc[h]
  BY <1>1, <1>2 DEF Shape
<1>4. g[1] \in Requests /\ (g[2] # "bulk" => g[2] \in Events /\ g = <<g[1], g[2]>>)
  BY GoroutineParts
<1>5. ASSUME NEW r \in Requests
      PROVE  /\ ToSet(done[r]) \subseteq ToSet(done'[r])
             /\ \A e \in ToSet(done'[r]) : e \in ToSet(done[r]) \/ <<r, e>> = g
             /\ done'[r] \in Seq(Events)
  <2>1. done[r] \in Seq(Events)
    BY <1>1 DEF Shape
  <2>2. \/ done'[r] = done[r]
        \/ done'[r] = Append(done[r], g[2]) /\ r = g[1] /\ g[2] # "bulk"
    BY <1>1, <1>2 DEF Shape
  <2>3. CASE done'[r] = done[r]
    BY <2>1, <2>3
  <2>4. CASE done'[r] = Append(done[r], g[2]) /\ r = g[1] /\ g[2] # "bulk"
    <3>1. g[2] \in Events /\ g = <<r, g[2]>>
      BY <1>4, <2>4
    <3>2. ToSet(done'[r]) = ToSet(done[r]) \cup {g[2]} /\ done'[r] \in Seq(Events)
      BY <2>1, <2>4, <3>1, Appended
    <3> QED BY <3>1, <3>2
  <2> QED BY <2>2, <2>3, <2>4
<1>6. Shape'
  <2>1. done' \in [Requests -> Seq(Events)]
    BY <1>1, <1>2, <1>5 DEF Shape
  <2> QED BY <1>1, <1>2, <2>1 DEF Shape, Calls
<1>7. RowsInv'
  BY <1>1, <1>2 DEF RowsInv
<1>8. WorkerInv'
  <2> SUFFICES ASSUME NEW r \in Requests, NEW e \in Events
               PROVE  /\ pc'[<<r, e>>] \in {"creator", "members", "rsvps"} => Holds(<<r, e>>, e)
                      /\ pc'[<<r, e>>] = "read" => row[e] = "finished"
                      /\ pc'[<<r, e>>] = "ok" => Holds(<<r, e>>, e) \/ row[e] = "finished"
                      /\ e \in ToSet(done'[r]) => pc'[<<r, e>>] = "ok"
    BY <1>2 DEF WorkerInv, Holds
  <2>1. <<r, e>> \in Goroutines
    BY GoroutineParts
  <2>2. CASE <<r, e>> = g
    <3>1. Holds(<<r, e>>, e) /\ pc'[<<r, e>>] = "ok"
      BY <1>1, <1>2, <1>3, <2>2 DEF WorkerInv
    <3> QED BY <3>1
  <2>3. CASE <<r, e>> # g
    <3>1. pc'[<<r, e>>] = pc[<<r, e>>]
      BY <1>3, <2>1, <2>3
    <3>2. e \in ToSet(done'[r]) => e \in ToSet(done[r])
      BY <1>5, <2>3
    <3> QED BY <1>1, <3>1, <3>2 DEF WorkerInv
  <2> QED BY <2>2, <2>3
<1>9. RSVPsInv'
  <2> SUFFICES ASSUME NEW e \in Events, row[e] = "finished", ~Complete(e, rsvp'[e]), e \notin cut
               PROVE  Coming(e)'
    BY <1>2 DEF RSVPsInv, Complete
  <2>1. ~Complete(e, rsvp[e])
    BY <1>2 DEF Complete
  <2>2. PICK h \in Goroutines : pc[h] = "rsvps" /\ e \in Writes(h) /\ Holds(h, e)
    BY <1>1, <2>1 DEF RSVPsInv, Coming
  <2>3. h # g
    <3>1. e \in Writes(g) /\ Holds(g, e) => Complete(e, rsvp'[e])
      BY <1>2 DEF Holds, Complete
    <3> QED BY <2>2, <3>1
  <2>4. pc'[h] = "rsvps" /\ h[1] \in Requests
    BY <1>3, <2>2, <2>3, GoroutineParts
  <2>5. e \in Writes(h)'
    BY <1>5, <2>2, <2>4 DEF Writes
  <2> QED BY <1>2, <2>2, <2>4, <2>5 DEF Coming, Holds, Complete
<1> QED BY <1>6, <1>7, <1>8, <1>9 DEF RequestInv

\* An end with an error, for whatever reason.
LEMMA StopsInv ==
  ASSUME RequestInv, NEW g \in Goroutines, Stops(g), pc[g] # "ok"
  PROVE  RequestInv'
<1>1. /\ pc' = [pc EXCEPT ![g] = "error"]
      /\ cut' = IF pc[g] = "rsvps" THEN cut \cup Writes(g) ELSE cut
      /\ UNCHANGED <<row, rsvp, got, done>>
  BY DEF Stops, EndsWith, Goto
<1> QED BY <1>1, ControlStep DEF Calls

LEMMA FetchInv ==
  ASSUME RequestInv, NEW r \in Requests, NEW e \in Events, UnmarshalEvent(r, e) \/ GetEvent(r, e)
  PROVE  RequestInv'
<1>1. CASE UnmarshalEvent(r, e)
  <2>1. row[e] = "finished"
    BY <1>1 DEF UnmarshalEvent, RequestInv, WorkerInv
  <2>2. /\ pc[<<r, e>>] = "read" /\ pc' = [pc EXCEPT ![<<r, e>>] = "ok"]
        /\ got' = [got EXCEPT ![<<r, e>>] = InDatabase(e)]
        /\ \/ done' = [done EXCEPT ![r] = Append(@, e)]
           \/ done' = done
        /\ UNCHANGED <<row, rsvp, cut>>
    BY <1>1 DEF UnmarshalEvent, Collect, Goto
  <2> QED BY <2>1, <2>2, FetchStep
<1>2. CASE GetEvent(r, e)
  <2>1. Complete(e, ToSet(OnCampfire(e).rsvps))
    BY DEF Complete, OnCampfire
  <2>2. /\ got' = [got EXCEPT ![<<r, e>>] = OnCampfire(e)]
        /\ UNCHANGED <<row, rsvp, cut>>
    BY <1>2 DEF GetEvent
  <2>3. CASE pc[<<r, e>>] = "get" /\ Collect(r, e, OnCampfire(e))
    <3>1. /\ pc' = [pc EXCEPT ![<<r, e>>] = "ok"]
          /\ \/ done' = [done EXCEPT ![r] = Append(@, e)]
             \/ done' = done
      BY <2>3 DEF Collect, Goto
    <3>2. pc[<<r, e>>] \in {"read", "get", "update"}
      BY <2>3
    <3> QED BY <2>1, <2>2, <3>1, <3>2, FetchStep
  <2>4. CASE pc[<<r, e>>] = "update" /\ Goto(<<r, e>>, "creator") /\ UNCHANGED done
    <3>1. pc' = [pc EXCEPT ![<<r, e>>] = "creator"]
      BY <2>4 DEF Goto
    <3>2. pc[<<r, e>>] \in {"read", "get", "update"} /\ done' = done
      BY <2>4
    <3> QED BY <2>1, <2>2, <3>1, <3>2, FetchStep
  <2> QED BY <1>2, <2>3, <2>4 DEF GetEvent
<1> QED BY <1>1, <1>2

LEMMA LookInv ==
  ASSUME RequestInv, NEW r \in Requests, NEW e \in Events,
         Resolve(r, e) \/ Look(r, e) \/ LookFails(r, e)
  PROVE  RequestInv'
<1>1. <<r, e>> \in Goroutines /\ <<r, e>>[2] = e
  BY GoroutineParts
<1>2. /\ pc[<<r, e>>] \in {"look", "read"}
      /\ UNCHANGED <<row, rsvp, got, done, cut>>
  BY DEF Resolve, Look, LookFails
<1>3. CASE Resolve(r, e)
  <2>1. \/ pc' = [pc EXCEPT ![<<r, e>>] = "skipped"]
        \/ pc' = [pc EXCEPT ![<<r, e>>] = "error"]
    BY <1>3 DEF Resolve, Goto
  <2> QED BY <1>1, <1>2, <2>1, ControlStep DEF Calls
<1>4. CASE Look(r, e)
  <2>1. row[e] \in {"absent", "open", "finished"}
    BY DEF RequestInv, Shape
  <2>2. \/ pc' = [pc EXCEPT ![<<r, e>>] = "read"] /\ row[e] = "finished"
        \/ pc' = [pc EXCEPT ![<<r, e>>] = "update"]
        \/ pc' = [pc EXCEPT ![<<r, e>>] = "get"]
    BY <1>4, <2>1 DEF Look, Goto
  <2> QED BY <1>1, <1>2, <2>2, ControlStep DEF Calls
<1>5. CASE LookFails(r, e)
  <2>1. pc' = [pc EXCEPT ![<<r, e>>] = "get"]
    BY <1>5 DEF LookFails, Goto
  <2> QED BY <1>1, <1>2, <2>1, ControlStep DEF Calls
<1> QED BY <1>3, <1>4, <1>5

\* No other step touches the rows, the RSVPs or what has been fetched.
LEMMA NextInv == RequestInv /\ [Next]_vars => RequestInv'
<1> SUFFICES ASSUME RequestInv, [Next]_vars PROVE RequestInv'
  OBVIOUS
<1>1. CASE UNCHANGED <<pc, row, rsvp, got, done, cut>>
  BY <1>1 DEF RequestInv, Shape, RowsInv, WorkerInv, RSVPsInv, Coming, Holds, Writes, Complete
<1>2. ASSUME NEW r \in Requests, NEW e \in Events,
             Resolve(r, e) \/ Look(r, e) \/ LookFails(r, e)
      PROVE  RequestInv'
  BY <1>2, LookInv
<1>3. ASSUME NEW r \in Requests, NEW e \in Events, UnmarshalEvent(r, e) \/ GetEvent(r, e)
      PROVE  RequestInv'
  BY <1>3, FetchInv
<1>4. ASSUME NEW g \in Goroutines, InsertListed(g) PROVE RequestInv'
  <2>1. /\ pc[g] = "creator" /\ pc' = [pc EXCEPT ![g] = "members"]
        /\ UNCHANGED <<row, rsvp, got, done, cut>>
    BY <1>4 DEF InsertListed, Goto
  <2> QED BY <2>1, ControlStep DEF Calls
<1>5. ASSUME NEW g \in Goroutines, Cancelled(g) \/ Fails(g) PROVE RequestInv'
  <2>1. Stops(g) /\ pc[g] # "ok"
    BY <1>5 DEF Cancelled, Fails, Terminal
  <2> QED BY <2>1, StopsInv
<1>6. ASSUME NEW g \in Goroutines, InsertEvents(g) PROVE RequestInv'
  BY <1>6, InsertEventsInv
<1>7. ASSUME NEW g \in Goroutines, InsertEventRSVPs(g) PROVE RequestInv'
  BY <1>7, InsertEventRSVPsInv
<1>8. ASSUME NEW g \in Goroutines, Upsert(g) PROVE RequestInv'
  BY <1>1, <1>8 DEF Upsert, locals
<1>9. ASSUME NEW r \in Exports, Export(r) \/ Leave(r) PROVE RequestInv'
  BY <1>1, <1>9 DEF Export, Leave
<1>10. ASSUME NEW r \in Imports, BulkProcessEvents(r) PROVE RequestInv'
  <2>1. <<r, "bulk">> \in Goroutines /\ <<r, "bulk">>[2] = "bulk"
    BY GoroutineParts
  <2>2. /\ pc[<<r, "bulk">>] = "wait" /\ pc' = [pc EXCEPT ![<<r, "bulk">>] = "members"]
        /\ UNCHANGED <<row, rsvp, got, done, cut>>
    BY <1>10 DEF BulkProcessEvents, Goto
  <2> QED BY <2>1, <2>2, ControlStep DEF Calls
<1>11. ASSUME NEW r \in Imports, Import(r) PROVE RequestInv'
  BY <1>1, <1>11 DEF Import
<1>12. CASE UNCHANGED vars
  BY <1>1, <1>12 DEF vars, locals
<1>13. CASE Next
  <2>1. \A r \in Requests, e \in Events : <<r, e>> \in Goroutines
    BY GoroutineParts
  <2> QED BY <1>2, <1>3, <1>4, <1>5, <1>6, <1>7, <1>8, <1>9, <1>10, <1>11, <1>13, <2>1 DEF Next
<1> QED BY <1>12, <1>13

\* The invariant of any number of exports and imports.
THEOREM RequestInvariant == Spec => []RequestInv
BY InitInv, NextInv, PTL DEF Spec

\* A finished event lacks RSVPs only as long as someone is about to store
\* them, or because an import was stopped just before it did.
THEOREM FinishedEventsComplete == Spec => []FinishedComplete
<1>1. RequestInv => FinishedComplete
  BY DEF RequestInv, RSVPsInv, Coming, FinishedComplete
<1> QED BY <1>1, RequestInvariant, PTL

-----------------------------------------------------------------------------
(* Upserts. *)

\* What an upsert does to a row: it keeps it, or writes the name of an entry,
\* an empty one only over nothing.
LEMMA UpsertedRow ==
  ASSUME NEW chunk \in Seq(T!Entry), NEW m \in Members, T!TypeOK
  PROVE  \/ T!UpsertWith(chunk)[m] = name[m]
         \/ \E i \in DOMAIN chunk :
              /\ chunk[i].id = m
              /\ T!UpsertWith(chunk)[m] = chunk[i].name
              /\ chunk[i].name = "" => name[m] = "absent"
<1>1. CASE ~ \E i \in DOMAIN chunk : chunk[i].id = m
  BY <1>1 DEF T!UpsertWith
<1>2. CASE \E i \in DOMAIN chunk : chunk[i].id = m
  <2> DEFINE k == CHOOSE i \in DOMAIN chunk : chunk[i].id = m
  <2>1. k \in DOMAIN chunk /\ chunk[k].id = m
    BY <1>2
  <2>2. T!UpsertWith(chunk)[m] =
          IF chunk[k].name = "" /\ name[m] # "absent" THEN name[m] ELSE chunk[k].name
    BY <1>2 DEF T!UpsertWith
  <2> QED BY <2>1, <2>2
<1> QED BY <1>1, <1>2

\* An upsert keeps the type of the table and every known name.
LEMMA UpsertKeeps ==
  ASSUME NEW chunk \in Seq(T!Entry), T!TypeOK
  PROVE  /\ T!UpsertWith(chunk) \in [Members -> T!Columns]
         /\ \A m \in Members : name[m] # "absent" => T!UpsertWith(chunk)[m] # "absent"
         /\ \A m \in Members : T!Known(m) => T!UpsertWith(chunk)[m] \notin {"", "absent"}
<1>1. \A i \in DOMAIN chunk : chunk[i] \in T!Entry
  OBVIOUS
<1>2. \A i \in DOMAIN chunk : chunk[i].name \in {"name"} \cup {""}
  BY <1>1 DEF T!Entry
<1>3. name \in [Members -> T!Columns]
  BY DEF T!TypeOK
<1>4. ASSUME NEW m \in Members
      PROVE  /\ T!UpsertWith(chunk)[m] \in T!Columns
             /\ name[m] # "absent" => T!UpsertWith(chunk)[m] # "absent"
             /\ T!Known(m) => T!UpsertWith(chunk)[m] \notin {"", "absent"}
  <2>1. CASE T!UpsertWith(chunk)[m] = name[m]
    BY <1>3, <2>1 DEF T!Known
  <2>2. CASE \E i \in DOMAIN chunk :
               /\ chunk[i].id = m
               /\ T!UpsertWith(chunk)[m] = chunk[i].name
               /\ chunk[i].name = "" => name[m] = "absent"
    BY <1>2, <2>2 DEF T!Columns, T!Known
  <2> QED BY <2>1, <2>2, UpsertedRow
<1>5. T!UpsertWith(chunk) = [m \in Members |-> T!UpsertWith(chunk)[m]]
  BY DEF T!UpsertWith
<1> QED BY <1>4, <1>5

\* Every entry of an insertable chunk is stored by its upsert.
LEMMA UpsertStores ==
  ASSUME NEW chunk \in Seq(T!Entry), T!TypeOK, T!Insertable(chunk),
         NEW i \in DOMAIN chunk
  PROVE  /\ T!UpsertWith(chunk)[chunk[i].id] # "absent"
         /\ chunk[i].name # "" => T!UpsertWith(chunk)[chunk[i].id] \notin {"", "absent"}
<1> DEFINE m == chunk[i].id
           k == CHOOSE j \in DOMAIN chunk : chunk[j].id = m
<1>1. chunk[i] \in T!Entry
  OBVIOUS
<1>2. m \in Members /\ chunk[i].name \in {"name"} \cup {""}
  BY <1>1 DEF T!Entry
<1>3. k \in DOMAIN chunk /\ chunk[k].id = m
  OBVIOUS
<1>4. k = i
  BY <1>3 DEF T!Insertable
<1>5. T!UpsertWith(chunk)[m] =
        IF chunk[i].name = "" /\ name[m] # "absent" THEN name[m] ELSE chunk[i].name
  BY <1>2, <1>4 DEF T!UpsertWith
<1> QED BY <1>2, <1>5 

\* The chunk and the rest of a batch are its two parts.
LEMMA ChunkAndRest ==
  ASSUME NEW b \in Seq(T!Entry)
  PROVE  \E n \in 0..Len(b) :
           /\ T!Chunk(b) \in Seq(T!Entry) /\ Len(T!Chunk(b)) = n
           /\ T!Rest(b) \in Seq(T!Entry) /\ Len(T!Rest(b)) = Len(b) - n
           /\ \A i \in 1..n : T!Chunk(b)[i] = b[i]
           /\ \A i \in 1..(Len(b) - n) : T!Rest(b)[i] = b[n + i]
<1> DEFINE n == T!Smaller(Len(b), BatchSize)
<1>1. n \in 0..Len(b)
  BY RequestAssumption DEF T!Smaller
<1>2. T!Chunk(b) = SubSeq(b, 1, n) /\ T!Rest(b) = SubSeq(b, n + 1, Len(b))
  BY DEF T!Chunk, T!Rest
<1> HIDE DEF n
<1>3. /\ SubSeq(b, 1, n) \in Seq(T!Entry) /\ Len(SubSeq(b, 1, n)) = n
      /\ \A i \in 1..n : SubSeq(b, 1, n)[i] = b[i]
  BY <1>1
<1>4. /\ SubSeq(b, n + 1, Len(b)) \in Seq(T!Entry)
      /\ Len(SubSeq(b, n + 1, Len(b))) = Len(b) - n
      /\ \A i \in 1..(Len(b) - n) : SubSeq(b, n + 1, Len(b))[i] = b[n + i]
  BY <1>1
<1> QED BY <1>1, <1>2, <1>3, <1>4

\* What is stored stays so in a step that forgets no row and no known name.
LEMMA StoredStays ==
  ASSUME NEW x,
         name[x.id] # "absent" => name'[x.id] # "absent",
         T!Known(x.id) => name'[x.id] \notin {"", "absent"},
         T!Stored(x)
  PROVE  T!Stored(x)'
BY DEF T!Stored, T!Known

-----------------------------------------------------------------------------
(* The inductive invariant. *)

\* What the next state stores of an entry.
StoredNext(x) ==
  /\ name'[x.id] # "absent"
  /\ x.name # "" => name'[x.id] \notin {"", "absent"}

CallInv(g) ==
  /\ Len(call[g].batch) <= Len(call[g].whole)
  /\ \A i \in 1..Len(call[g].batch) :
       call[g].batch[i] = call[g].whole[Len(call[g].whole) - Len(call[g].batch) + i]
  /\ \A i \in 1..(Len(call[g].whole) - Len(call[g].batch)) : T!Stored(call[g].whole[i])
  /\ call[g].pc = "committed" => call[g].batch = <<>>

LEMMA MemberInvParts == T!MemberInv <=> T!TypeOK /\ \A g \in Goroutines : CallInv(g)
BY DEF T!MemberInv, CallInv

LEMMA MemberInit ==
  ASSUME T!Init PROVE T!MemberInv
<1>1. T!TypeOK
  <2>1. T!NoCall \in T!Calls
    BY DEF T!NoCall, T!Calls
  <2> QED BY <2>1 DEF T!Init, T!TypeOK
<1>2. ASSUME NEW g \in Goroutines PROVE CallInv(g)
  <2>1. call[g] = T!NoCall
    BY DEF T!Init
  <2> QED BY <2>1 DEF CallInv, T!NoCall
<1> QED BY <1>1, <1>2, MemberInvParts

LEMMA PrefixEntry ==
  ASSUME NEW w \in Seq(T!Entry), NEW b \in Seq(T!Entry), NEW i \in 1..(Len(w) - Len(b))
  PROVE  w[i] \in T!Entry
OBVIOUS

\* A call whose record does not change keeps its part of the invariant.
LEMMA OtherCalls ==
  ASSUME NEW g \in Goroutines, T!TypeOK, CallInv(g), call'[g] = call[g],
         \A m \in Members : name[m] # "absent" => name'[m] # "absent",
         \A m \in Members : T!Known(m) => name'[m] \notin {"", "absent"}
  PROVE  CallInv(g)'
<1> DEFINE w == call[g].whole
<1>1. call[g] \in T!Calls
  BY DEF T!TypeOK
<1>2. w \in Seq(T!Entry) /\ call[g].batch \in Seq(T!Entry)
  BY <1>1 DEF T!Calls
<1>3. ASSUME NEW i \in 1..(Len(w) - Len(call[g].batch)) PROVE T!Stored(w[i])'
  <2>3. w[i] \in T!Entry
    BY <1>2, PrefixEntry
  <2>4. w[i].id \in Members
    BY <2>3 DEF T!Entry
  <2>5. T!Stored(w[i])
    BY DEF CallInv
  <2> QED BY <2>4, <2>5 DEF T!Stored, T!Known
<1> QED BY <1>3 DEF CallInv

\* A step that changes only the record of one call.
LEMMA OneCall ==
  ASSUME NEW g \in Goroutines, T!MemberInv, NEW c \in T!Calls,
         UNCHANGED name, call' = [call EXCEPT ![g] = c], CallInv(g)'
  PROVE  T!MemberInv'
<1>1. T!TypeOK /\ \A h \in Goroutines : CallInv(h)
  BY MemberInvParts
<1>2. T!TypeOK'
  BY <1>1 DEF T!TypeOK
<1>3. ASSUME NEW h \in Goroutines, h # g PROVE CallInv(h)'
  <2>1. call'[h] = call[h]
    BY <1>1, <1>3 DEF T!TypeOK
  <2> QED BY <1>1, <2>1, OtherCalls DEF T!Known
<1>4. \A h \in Goroutines : CallInv(h)'
  BY <1>3
<1> QED BY <1>2, <1>4 DEF T!MemberInv, CallInv

LEMMA InsertMembersInv ==
  ASSUME T!MemberInv, NEW g \in Goroutines, NEW b \in Seq(T!Entry), T!InsertMembers(g, b)
  PROVE  T!MemberInv'
<1> DEFINE c == [pc |-> IF b = <<>> THEN "committed" ELSE "insert", batch |-> b, whole |-> b]
<1>1. c \in T!Calls
  BY DEF T!Calls
<1>2. call' = [call EXCEPT ![g] = c] /\ UNCHANGED name
  BY DEF T!InsertMembers
<1>3. call'[g] = c
  BY <1>2 DEF T!MemberInv, T!TypeOK
<1>4. CallInv(g)'
  BY <1>3 DEF CallInv
<1> QED BY <1>1, <1>2, <1>4, OneCall

LEMMA InsertFailsInv ==
  ASSUME T!MemberInv, NEW g \in Goroutines, T!InsertFails(g)
  PROVE  T!MemberInv'
<1>1. T!NoCall \in T!Calls
  BY DEF T!NoCall, T!Calls
<1>2. call' = [call EXCEPT ![g] = T!NoCall] /\ UNCHANGED name
  BY DEF T!InsertFails
<1>3. call'[g] = T!NoCall
  BY <1>2 DEF T!MemberInv, T!TypeOK
<1>4. CallInv(g)'
  BY <1>3 DEF CallInv, T!NoCall
<1> QED BY <1>1, <1>2, <1>4, OneCall

LEMMA CommitInv ==
  ASSUME T!MemberInv, NEW g \in Goroutines, T!Commit(g)
  PROVE  T!MemberInv'
<1> DEFINE c == [call[g] EXCEPT !.pc = "committed"]
<1>1. call[g] \in T!Calls
  BY DEF T!MemberInv, T!TypeOK
<1>2. c \in T!Calls
  BY <1>1 DEF T!Calls
<1>3. call' = [call EXCEPT ![g] = c] /\ UNCHANGED name /\ call[g].batch = <<>>
  BY DEF T!Commit
<1>4. call'[g] = c
  BY <1>3 DEF T!MemberInv, T!TypeOK
<1>5. c.batch = call[g].batch /\ c.whole = call[g].whole
  BY <1>1 DEF T!Calls
<1>6. CallInv(g)'
  <2>1. CallInv(g)
    BY MemberInvParts
  <2>2. \A i \in 1..(Len(call[g].whole) - Len(call[g].batch)) : StoredNext(call[g].whole[i])
    BY <1>3, <2>1 DEF CallInv, T!Stored, StoredNext, T!Known
  <2>3. call'[g].batch = call[g].batch /\ call'[g].whole = call[g].whole
    BY <1>4, <1>5
  <2> HIDE DEF c
  <2> QED BY <1>3, <2>1, <2>2, <2>3 DEF CallInv, T!Stored, StoredNext, T!Known
<1> QED BY <1>2, <1>3, <1>6, OneCall

LEMMA InsertChunkInv ==
  ASSUME T!MemberInv, NEW g \in Goroutines, T!InsertChunk(g)
  PROVE  T!MemberInv'
<1> DEFINE b == call[g].batch
           w == call[g].whole
           c == [call[g] EXCEPT !.batch = T!Rest(b)]
           k == Len(w) - Len(b)
<1>1. T!TypeOK /\ \A h \in Goroutines : CallInv(h)
  BY MemberInvParts
<1>2. call[g] \in T!Calls
  BY <1>1 DEF T!TypeOK
<1>3. b \in Seq(T!Entry) /\ w \in Seq(T!Entry)
  BY <1>2 DEF T!Calls
<1>4. PICK n \in 0..Len(b) :
           /\ T!Chunk(b) \in Seq(T!Entry) /\ Len(T!Chunk(b)) = n
           /\ T!Rest(b) \in Seq(T!Entry) /\ Len(T!Rest(b)) = Len(b) - n
           /\ \A i \in 1..n : T!Chunk(b)[i] = b[i]
           /\ \A i \in 1..(Len(b) - n) : T!Rest(b)[i] = b[n + i]
  BY <1>3, ChunkAndRest
<1>5. /\ call[g].pc = "insert" /\ T!Insertable(T!Chunk(b))
      /\ name' = T!UpsertWith(T!Chunk(b)) /\ call' = [call EXCEPT ![g] = c]
  BY <1>2 DEF T!InsertChunk, T!Calls
<1>6. /\ name' \in [Members -> T!Columns]
      /\ \A m \in Members : name[m] # "absent" => name'[m] # "absent"
      /\ \A m \in Members : T!Known(m) => name'[m] \notin {"", "absent"}
  BY <1>1, <1>4, <1>5, UpsertKeeps
<1>7. c \in T!Calls /\ c.batch = T!Rest(b) /\ c.whole = w /\ c.pc = "insert"
  BY <1>2, <1>4, <1>5 DEF T!Calls
<1>8. call'[g] = c
  BY <1>1, <1>5 DEF T!TypeOK
<1>9. T!TypeOK'
  BY <1>1, <1>5, <1>6, <1>7 DEF T!TypeOK
<1>10. CallInv(g)'
  <2>1. /\ Len(b) <= Len(w)
        /\ \A i \in 1..Len(b) : b[i] = w[k + i]
        /\ \A i \in 1..k : T!Stored(w[i])
    BY <1>1 DEF CallInv
  <2>2. Len(w) \in Nat /\ Len(b) \in Nat /\ k \in Nat
    BY <1>3, <2>1
  <2>3. Len(w) - Len(T!Rest(b)) = k + n
    BY <1>4, <2>2
  <2>4. \A i \in 1..Len(T!Rest(b)) : T!Rest(b)[i] = w[k + n + i]
    <3> SUFFICES ASSUME NEW i \in 1..(Len(b) - n) PROVE T!Rest(b)[i] = w[k + n + i]
      BY <1>4
    <3>1. T!Rest(b)[i] = b[n + i]
      BY <1>4
    <3> HIDE DEF k, b
    <3>2. n + i \in 1..Len(b) /\ k + (n + i) = k + n + i
      BY <2>2
    <3> QED BY <2>1, <3>1, <3>2
  <2>5. ASSUME NEW i \in 1..(k + n) PROVE StoredNext(w[i])
    <3>1. i \in 1..Len(w)
      <4>1. k + n <= Len(w)
        BY <2>2
      <4> HIDE DEF w, k
      <4> QED BY <2>2, <4>1
    <3>2. w[i] \in T!Entry /\ w[i].id \in Members
      <4>1. w[i] \in T!Entry
        <5> HIDE DEF w
        <5> QED BY <1>3, <3>1
      <4> QED BY <4>1 DEF T!Entry
    <3>3. CASE i <= k
      <4>1. T!Stored(w[i])
        <5>1. i \in 1..k
          <6> HIDE DEF k
          <6> QED BY <2>2, <3>3
        <5> QED BY <2>1, <5>1
      <4> QED BY <1>6, <3>2, <4>1 DEF T!Stored, StoredNext, T!Known
    <3>4. CASE i > k
      <4> DEFINE j == i - k
      <4>1. j \in 1..n /\ j \in 1..Len(b) /\ k + j = i
        <5> HIDE DEF k, b
        <5> QED BY <2>2, <3>4
      <4>2. T!Chunk(b)[j] = w[i]
        <5> HIDE DEF k, j
        <5> QED BY <1>4, <2>1, <4>1
      <4>3. j \in DOMAIN T!Chunk(b)
        <5> HIDE DEF j, b
        <5> QED BY <1>4, <4>1
      <4>4. /\ name'[w[i].id] # "absent"
            /\ w[i].name # "" => name'[w[i].id] \notin {"", "absent"}
        <5> DEFINE d == T!Chunk(b)
        <5>1. d \in Seq(T!Entry) /\ T!Insertable(d) /\ j \in DOMAIN d /\ d[j] = w[i]
          BY <1>4, <1>5, <4>2, <4>3
        <5>2. name' = T!UpsertWith(d)
          BY <1>5
        <5> HIDE DEF d, j, w
        <5>3. /\ T!UpsertWith(d)[d[j].id] # "absent"
              /\ d[j].name # "" => T!UpsertWith(d)[d[j].id] \notin {"", "absent"}
          BY <1>1, <5>1, UpsertStores
        <5> QED BY <5>1, <5>2, <5>3
      <4> QED BY <4>4, Zenon DEF StoredNext
    <3>5. i <= k \/ i > k
      <4> HIDE DEF k
      <4> QED BY <2>2
    <3> QED BY <3>3, <3>4, <3>5
  <2>6. call'[g].batch = T!Rest(b) /\ call'[g].whole = w /\ call'[g].pc = "insert"
    BY <1>7, <1>8
  <2>7. Len(T!Rest(b)) <= Len(w)
    BY <1>4, <2>1, <2>2
  <2>8. \A i \in 1..Len(T!Rest(b)) : T!Rest(b)[i] = w[Len(w) - Len(T!Rest(b)) + i]
    BY <2>3, <2>4
  <2>9. \A i \in 1..(Len(w) - Len(T!Rest(b))) : StoredNext(w[i])
    BY <2>3, <2>5
  <2> HIDE DEF b, w, k, c
  <2> QED BY <2>6, <2>7, <2>8, <2>9 DEF CallInv, T!Stored, StoredNext, T!Known
<1>11. ASSUME NEW h \in Goroutines, h # g PROVE CallInv(h)'
  <2>1. call'[h] = call[h]
    BY <1>1, <1>5, <1>11 DEF T!TypeOK
  <2> QED BY <1>1, <1>6, <2>1, OtherCalls
<1>12. \A h \in Goroutines : CallInv(h)'
  BY <1>10, <1>11
<1> QED BY <1>9, <1>12 DEF T!MemberInv, CallInv

LEMMA MemberNext ==
  ASSUME T!MemberInv, [T!Next]_(T!table)
  PROVE  T!MemberInv'
<1>1. CASE UNCHANGED T!table
  BY <1>1 DEF T!table, T!MemberInv, T!TypeOK, T!Stored, T!Known
<1>2. ASSUME NEW g \in Goroutines, NEW b \in Seq(T!Entry), T!InsertMembers(g, b) PROVE T!MemberInv'
  BY <1>2, InsertMembersInv
<1>3. ASSUME NEW g \in Goroutines, T!InsertChunk(g) PROVE T!MemberInv'
  BY <1>3, InsertChunkInv
<1>4. ASSUME NEW g \in Goroutines, T!InsertFails(g) PROVE T!MemberInv'
  BY <1>4, InsertFailsInv
<1>5. ASSUME NEW g \in Goroutines, T!Commit(g) PROVE T!MemberInv'
  BY <1>5, CommitInv
<1> QED BY <1>1, <1>2, <1>3, <1>4, <1>5 DEF T!Next

-----------------------------------------------------------------------------
(* The table of members under all exports and imports. *)

\* What is fetched and what is stored of an event are lists of members.
ListsInv ==
  /\ \A r \in Requests, e \in Events : Fetched(got[<<r, e>>])
  /\ rsvp \in [Events -> SUBSET Members]

\* A goroutine does to the table what a caller of InsertMembers may do.
TableStep == [T!Next]_(T!table)

LEMMA FetchedTypes ==
  ASSUME NEW e \in Events, ListsInv
  PROVE  Fetched(OnCampfire(e)) /\ Fetched(InDatabase(e))
<1>1. Listed[e] \in Seq(Members) /\ RSVPs[e] \in Seq(Members)
  BY RequestAssumption
<1>2. Fetched(OnCampfire(e))
  BY <1>1, EntryTypes DEF Fetched, OnCampfire
<1>3. SetToSeq(rsvp[e]) \in Seq(Members)
  BY AsList DEF ListsInv
<1>4. InDatabase(e).members \in Seq(T!Entry)
  <2> DEFINE s == SetToSeq(rsvp[e])
             f == [i \in DOMAIN s |-> IF name[s[i]] = "" THEN Placeholder(Nobody) ELSE Named(s[i])]
  <2>1. InDatabase(e).members = f
    BY DEF InDatabase, Entries
  <2>2. s \in Seq(Members)
    BY <1>3
  <2> HIDE DEF s
  <2>3. DOMAIN s = 1..Len(s) /\ Len(s) \in Nat /\ \A i \in 1..Len(s) : s[i] \in Members
    BY <2>2
  <2>4. Placeholder(Nobody) \in T!Entry /\ \A m \in Members : Named(m) \in T!Entry
    BY EntryTypes, RequestAssumption
  <2>5. f \in [1..Len(s) -> T!Entry]
    BY <2>3, <2>4
  <2>6. \A h \in [1..Len(s) -> T!Entry] : h \in Seq(T!Entry)
    BY <2>3
  <2> QED BY <2>1, <2>5, <2>6
<1>5. InDatabase(e).rsvps = SetToSeq(rsvp[e])
  BY DEF InDatabase
<1> QED BY <1>2, <1>3, <1>4, <1>5 DEF Fetched

LEMMA TableInit == Init => T!MemberInv /\ ListsInv
<1> SUFFICES ASSUME Init PROVE T!MemberInv /\ ListsInv
  OBVIOUS
<1>1. T!Init
  BY DEF Init, T!Init, T!Columns
<1>2. ASSUME NEW r \in Requests, NEW e \in Events PROVE Fetched(got[<<r, e>>])
  <2>1. got[<<r, e>>] = NoEvent
    BY GoroutineParts DEF Init
  <2> QED BY <2>1 DEF Fetched, NoEvent
<1>3. rsvp \in [Events -> SUBSET Members]
  BY RequestAssumption DEF Init
<1> QED BY <1>1, <1>2, <1>3, MemberInit DEF ListsInv

\* An end with an error gives up the call of the goroutine, if it has one.
LEMMA StopsTable ==
  ASSUME NEW g \in Goroutines, Stops(g)
  PROVE  TableStep
<1>1. T!InsertFails(g) \/ UNCHANGED T!table
  BY DEF Stops, EndsWith, T!table
<1> QED BY <1>1 DEF TableStep, T!Next

LEMMA NextTable ==
  ASSUME RequestInv, ListsInv, [Next]_vars
  PROVE  TableStep
<1>1. CASE UNCHANGED <<name, call>>
  BY <1>1 DEF TableStep, T!table
<1>2. \A g \in Goroutines, b \in Seq(T!Entry) : T!InsertMembers(g, b) => TableStep
  BY DEF TableStep, T!Next
<1>3. ASSUME NEW r \in Requests, NEW e \in Events,
             Resolve(r, e) \/ Look(r, e) \/ LookFails(r, e) \/ UnmarshalEvent(r, e)
      PROVE  TableStep
  BY <1>1, <1>3 DEF Resolve, Look, LookFails, UnmarshalEvent
<1>4. ASSUME NEW r \in Requests, NEW e \in Events, GetEvent(r, e) PROVE TableStep
  <2>1. Organizer \in Members
    BY RequestAssumption
  <2>2. <<r, e>> \in Goroutines /\ Named(Organizer) \in T!Entry
    BY <2>1, GoroutineParts, EntryTypes
  <2>3. \A x \in T!Entry : <<x>> \in Seq(T!Entry)
    OBVIOUS
  <2> QED BY <1>1, <1>2, <1>4, <2>2, <2>3 DEF GetEvent
<1>5. ASSUME NEW r \in Requests, NEW e \in Events, InsertListed(<<r, e>>) PROVE TableStep
  <2>1. Fetched(got[<<r, e>>])
    BY DEF ListsInv
  <2>2. AddMissing(got[<<r, e>>].members, Entries(Placeholder, got[<<r, e>>].rsvps)) \in Seq(T!Entry)
    BY <2>1, EntryTypes, AddMissingExtends DEF Fetched, Extensions
  <2> QED BY <1>2, <1>5, <2>2, GoroutineParts DEF InsertListed
<1>6. ASSUME NEW g \in Goroutines, Cancelled(g) \/ Fails(g) PROVE TableStep
  BY <1>6, StopsTable DEF Cancelled, Fails
<1>7. ASSUME NEW g \in Goroutines, Upsert(g) PROVE TableStep
  BY <1>7 DEF Upsert, TableStep, T!Next
<1>8. ASSUME NEW g \in Goroutines, InsertEvents(g) \/ InsertEventRSVPs(g) PROVE TableStep
  BY <1>1, <1>8 DEF InsertEvents, InsertEventRSVPs
<1>9. ASSUME NEW r \in Requests, Export(r) \/ Leave(r) \/ Import(r) PROVE TableStep
  BY <1>1, <1>9 DEF Export, Leave, Import
<1>10. ASSUME NEW r \in Imports, BulkProcessEvents(r) PROVE TableStep
  <2>1. r \in Requests /\ <<r, "bulk">> \in Goroutines
    BY GoroutineParts DEF Requests
  <2>2. AllMembers(r) \in Seq(T!Entry)
    BY <2>1, AllMembersTyped DEF RequestInv, Shape, ListsInv
  <2> QED BY <1>2, <1>10, <2>1, <2>2 DEF BulkProcessEvents
<1>11. CASE UNCHANGED vars
  BY <1>1, <1>11 DEF vars
<1>12. CASE Next
  <2>1. \A r \in Requests, e \in Events : <<r, e>> \in Goroutines
    BY GoroutineParts
  <2>2. \A r \in Exports \cup Imports : r \in Requests
    BY DEF Requests
  <2> QED BY <1>3, <1>4, <1>5, <1>6, <1>7, <1>8, <1>9, <1>10, <1>12, <2>1, <2>2 DEF Next
<1> QED BY <1>11, <1>12

LEMMA NextLists ==
  ASSUME RequestInv, ListsInv, [Next]_vars
  PROVE  ListsInv'
<1>1. CASE UNCHANGED <<got, rsvp>>
  BY <1>1 DEF ListsInv, Fetched
<1>2. ASSUME NEW r \in Requests, NEW e \in Events, UnmarshalEvent(r, e) \/ GetEvent(r, e)
      PROVE  ListsInv'
  <2>1. PICK event : Fetched(event) /\ got' = [got EXCEPT ![<<r, e>>] = event]
    BY <1>2, FetchedTypes DEF UnmarshalEvent, GetEvent
  <2>2. UNCHANGED rsvp
    BY <1>2 DEF UnmarshalEvent, GetEvent
  <2>3. ASSUME NEW r1 \in Requests, NEW e1 \in Events PROVE Fetched(got'[<<r1, e1>>])
    <3>1. <<r1, e1>> \in Goroutines
      BY GoroutineParts
    <3>2. got'[<<r1, e1>>] \in {event, got[<<r1, e1>>]}
      BY <2>1, <3>1 DEF RequestInv, Shape
    <3>3. Fetched(got[<<r1, e1>>])
      BY DEF ListsInv
    <3> QED BY <2>1, <3>2, <3>3
  <2> QED BY <2>2, <2>3 DEF ListsInv, Fetched
<1>3. ASSUME NEW g \in Goroutines, InsertEventRSVPs(g) PROVE ListsInv'
  <2>1. g[1] \in Requests
    BY GoroutineParts
  <2>2. /\ rsvp' = [e \in Events |-> IF e \in Writes(g) THEN rsvp[e] \cup ToSet(got[<<g[1], e>>].rsvps)
                                     ELSE rsvp[e]]
        /\ UNCHANGED got
    BY <1>3 DEF InsertEventRSVPs
  <2>3. ASSUME NEW e \in Events PROVE ToSet(got[<<g[1], e>>].rsvps) \subseteq Members
    <3>1. got[<<g[1], e>>].rsvps \in Seq(Members)
      BY <2>1 DEF ListsInv, Fetched
    <3> QED BY <3>1 DEF ToSet
  <2> QED BY <2>2, <2>3 DEF ListsInv, Fetched
<1>4. ASSUME NEW g \in Goroutines,
             InsertListed(g) \/ Cancelled(g) \/ Fails(g) \/ Upsert(g) \/ InsertEvents(g)
      PROVE  ListsInv'
  BY <1>1, <1>4 DEF InsertListed, Cancelled, Fails, Stops, EndsWith, Upsert, InsertEvents, locals
<1>5. ASSUME NEW r \in Requests, NEW e \in Events,
             Resolve(r, e) \/ Look(r, e) \/ LookFails(r, e)
      PROVE  ListsInv'
  BY <1>1, <1>5 DEF Resolve, Look, LookFails
<1>6. ASSUME NEW r \in Requests, Export(r) \/ Leave(r) \/ Import(r) \/ BulkProcessEvents(r)
      PROVE  ListsInv'
  BY <1>1, <1>6 DEF Export, Leave, Import, BulkProcessEvents
<1>7. CASE UNCHANGED vars
  BY <1>1, <1>7 DEF vars, locals
<1>8. CASE Next
  <2>1. \A r \in Requests, e \in Events : <<r, e>> \in Goroutines
    BY GoroutineParts
  <2>2. \A r \in Exports \cup Imports : r \in Requests
    BY DEF Requests
  <2> QED BY <1>2, <1>3, <1>4, <1>5, <1>6, <1>8, <2>1, <2>2 DEF Next
<1> QED BY <1>7, <1>8

\* What is left of a batch is its end, and what is not left is stored.
THEOREM TableInvariant == Spec => [](T!MemberInv /\ ListsInv)
<1>1. (T!MemberInv /\ ListsInv) /\ RequestInv /\ [Next]_vars => (T!MemberInv /\ ListsInv)'
  BY NextTable, NextLists, MemberNext DEF TableStep
<1> QED BY <1>1, TableInit, RequestInvariant, PTL DEF Spec

\* Exports and imports use the table of members as MemberTable describes it:
\* each step of theirs is a call of InsertMembers, one of its statements, or
\* none of the table's business.
THEOREM RequestsImplementTable == Spec => T!Spec
<1>1. Init => T!Init
  BY DEF Init, T!Init, T!Columns
<1>2. RequestInv /\ ListsInv /\ [Next]_vars => [T!Next]_(T!table)
  BY NextTable DEF TableStep
<1>3. Spec => []ListsInv
  BY TableInvariant, PTL
<1> QED BY <1>1, <1>2, <1>3, RequestInvariant, PTL DEF Spec, T!Spec

LEMMA Committed == T!MemberInv => BatchStored
<1> SUFFICES ASSUME T!MemberInv, NEW g \in Goroutines, call[g].pc = "committed",
                    NEW i \in DOMAIN call[g].whole
             PROVE  T!Stored(call[g].whole[i])
  BY DEF BatchStored, T!BatchStored
<1> DEFINE w == call[g].whole
<1>1. call[g] \in T!Calls /\ CallInv(g)
  BY MemberInvParts DEF T!TypeOK
<1>2. w \in Seq(T!Entry) /\ call[g].batch = <<>>
  BY <1>1 DEF T!Calls, CallInv
<1>3. i \in 1..Len(w) /\ Len(w) - Len(<<>>) = Len(w)
  <2> HIDE DEF w
  <2>1. DOMAIN w = 1..Len(w) /\ Len(w) - Len(<<>>) = Len(w)
    BY <1>2
  <2> QED BY <2>1 DEF w
<1> QED BY <1>1, <1>2, <1>3 DEF CallInv

\* A call of InsertMembers that returned without error has stored all that
\* it was given, whatever the other goroutines do meanwhile.
THEOREM BatchesAreStored == Spec => []BatchStored
BY Committed, TableInvariant, PTL

\* No name that is known is lost to a placeholder.
LEMMA KnownStays ==
  ASSUME T!MemberInv, TableStep, NEW m \in Members, T!Known(m)
  PROVE  T!Known(m)'
<1>1. CASE UNCHANGED name
  BY <1>1 DEF T!Known
<1>2. ASSUME NEW g \in Goroutines, T!InsertChunk(g) PROVE T!Known(m)'
  <2>1. call[g] \in T!Calls /\ T!TypeOK
    BY DEF T!MemberInv, T!TypeOK
  <2>2. call[g].batch \in Seq(T!Entry)
    BY <2>1 DEF T!Calls
  <2>3. T!Chunk(call[g].batch) \in Seq(T!Entry)
    BY <2>2, ChunkAndRest
  <2>4. name' = T!UpsertWith(T!Chunk(call[g].batch))
    BY <1>2 DEF T!InsertChunk
  <2>5. name'[m] \notin {"", "absent"}
    BY <2>1, <2>3, <2>4, UpsertKeeps
  <2> QED BY <2>5 DEF T!Known
<1> QED BY <1>1, <1>2 DEF TableStep, T!Next, T!table, T!InsertMembers, T!InsertFails, T!Commit

\* A name that is known is never lost to the placeholder of another import.
THEOREM NamesAreKept == Spec => NamesKept
<1>1. RequestInv /\ T!MemberInv /\ ListsInv /\ [Next]_vars
        => [\A m \in Members : T!Known(m) => T!Known(m)']_(T!table)
  BY NextTable, KnownStays
<1> QED BY <1>1, RequestInvariant, TableInvariant, PTL DEF Spec, NamesKept, T!NamesKept

-----------------------------------------------------------------------------
(* What an export answers. *)

\* All that an export is to answer of an event.
AllOf(e, event) ==
  /\ Complete(e, ToSet(event.rsvps))
  /\ \A m \in (ToSet(Listed[e]) \cap ToSet(RSVPs[e])) \ shadowed : FindMember(m, event)

\* A goroutine has the event of Campfire until it has stored it, is about to
\* store every member of it, and answers all of it unless it was early.
WorkerContent(r, e) ==
  LET g == <<r, e>>
  IN  /\ pc[g] # "look" => e \in Asked[r]
      /\ pc[g] = "skipped" => e \in Unsupported
      /\ pc[g] \in {"creator", "members", "rsvps"} => got[g] = OnCampfire(e)
      /\ pc[g] = "members" => \A m \in ToSet(Listed[e]) : Named(m) \in ToSet(call[g].whole)
      /\ pc[g] = "ok" =>
           /\ got[g] = OnCampfire(e) \/ row[e] = "finished"
           /\ g \in early \/ AllOf(e, got[g])
           /\ r \in Exports => e \in ToSet(done[r]) \/ got[g].rsvps = <<>>

\* The members of a finished event are in the table, by their names.
RowContent(e) ==
  row[e] = "finished" => \A m \in ToSet(Listed[e]) \ shadowed : T!Known(m)

\* A bulk import stores what its goroutines have returned, when all have.
BulkContent(r) ==
  LET b == <<r, "bulk">>
  IN  /\ pc[b] \in {"members", "rsvps", "ok"} => \A g \in Fetches(r) : pc[g] = "ok"
      /\ pc[b] = "members" =>
           \A e \in ToSet(done[r]) :
             row[e] # "finished" =>
               \A m \in ToSet(Listed[e]) \ shadowed : Named(m) \in ToSet(call[b].whole)

AnswerContent(r) ==
  answer[r] = "exported" => \A g \in Fetches(r) : pc[g] \in {"ok", "skipped"}

ContentInv ==
  /\ answer = [r \in Requests |-> answer[r]]
  /\ \A r \in Requests, e \in Events : WorkerContent(r, e)
  /\ \A e \in Events : RowContent(e)
  /\ \A r \in Imports : BulkContent(r)
  /\ \A r \in Exports : AnswerContent(r)

TableInv == RequestInv /\ T!MemberInv /\ ListsInv

LEMMA NamedEntries ==
  ASSUME NEW ms \in Seq(Members), NEW m \in ToSet(ms)
  PROVE  Named(m) \in ToSet(Entries(Named, ms)) /\ HasMember(Entries(Named, ms), m) /\ m \in Members
<1>1. PICK i \in DOMAIN ms : ms[i] = m
  BY DEF ToSet
<1>2. DOMAIN Entries(Named, ms) = DOMAIN ms /\ Entries(Named, ms)[i] = Named(m)
  BY <1>1 DEF Entries
<1>3. m \in Members /\ Named(m).id = m
  BY <1>1 DEF Named
<1> QED BY <1>1, <1>2, <1>3 DEF ToSet, HasMember

\* Campfire has all of an event.
LEMMA CampfireHasAll ==
  ASSUME NEW e \in Events
  PROVE  /\ AllOf(e, OnCampfire(e))
         /\ \A m \in ToSet(Listed[e]) : m \in Members /\ Named(m) \in ToSet(OnCampfire(e).members)
<1>1. Listed[e] \in Seq(Members)
  BY RequestAssumption
<1>2. \A m \in ToSet(Listed[e]) :
        /\ m \in Members
        /\ Named(m) \in ToSet(OnCampfire(e).members)
        /\ FindMember(m, OnCampfire(e))
  BY <1>1, NamedEntries DEF OnCampfire, FindMember
<1>3. Complete(e, ToSet(OnCampfire(e).rsvps))
  BY DEF Complete, OnCampfire
<1> QED BY <1>2, <1>3 DEF AllOf

\* So has the database of a finished event whose RSVPs are there.
LEMMA DatabaseHasAll ==
  ASSUME NEW e \in Events, ListsInv, RowContent(e), row[e] = "finished", Complete(e, rsvp[e])
  PROVE  AllOf(e, InDatabase(e))
<1> DEFINE s == SetToSeq(rsvp[e])
<1>1. s \in Seq(Members) /\ ToSet(s) = rsvp[e]
  BY AsList DEF ListsInv
<1>2. InDatabase(e).rsvps = s
  BY DEF InDatabase
<1>3. ASSUME NEW m \in (ToSet(Listed[e]) \cap ToSet(RSVPs[e])) \ shadowed
      PROVE  FindMember(m, InDatabase(e))
  <2>1. name[m] # ""
    BY DEF RowContent, T!Known
  <2>2. m \in ToSet(s)
    BY <1>1 DEF Complete
  <2>3. PICK i \in DOMAIN s : s[i] = m
    BY <2>2 DEF ToSet
  <2>4. DOMAIN InDatabase(e).members = DOMAIN s /\ InDatabase(e).members[i] = Named(m)
    BY <2>1, <2>3 DEF InDatabase, Entries
  <2> HIDE DEF s
  <2> QED BY <2>3, <2>4 DEF FindMember, HasMember, Named
<1> HIDE DEF s
<1> QED BY <1>1, <1>2, <1>3 DEF AllOf, Complete

LEMMA ContentInit == Init => ContentInv
<1> SUFFICES ASSUME Init PROVE ContentInv
  OBVIOUS
<1>1. ASSUME NEW r \in Requests, NEW e \in Events PROVE WorkerContent(r, e)
  <2>1. <<r, e>> \in Goroutines /\ <<r, e>>[2] # "bulk"
    BY GoroutineParts, RequestAssumption
  <2>2. pc[<<r, e>>] = "look"
    BY <2>1 DEF Init
  <2> QED BY <2>2 DEF WorkerContent
<1>2. \A e \in Events : RowContent(e)
  BY DEF Init, RowContent
<1>3. ASSUME NEW r \in Imports PROVE BulkContent(r)
  <2>1. <<r, "bulk">> \in Goroutines /\ <<r, "bulk">>[2] = "bulk"
    BY GoroutineParts
  <2>2. pc[<<r, "bulk">>] = "wait"
    BY <2>1 DEF Init
  <2> QED BY <2>2 DEF BulkContent
<1>4. \A r \in Exports : AnswerContent(r)
  BY DEF Init, AnswerContent, Requests
<1>5. answer = [r \in Requests |-> answer[r]]
  BY DEF Init
<1> QED BY <1>1, <1>2, <1>3, <1>4, <1>5 DEF ContentInv

\* What the others see of a step of one goroutine.
OnlyMoves(g) ==
  /\ \A h \in Goroutines : h # g => pc'[h] = pc[h] /\ got'[h] = got[h] /\ call'[h] = call[h]
  /\ \A r \in Requests : /\ ToSet(done[r]) \subseteq ToSet(done'[r])
                         /\ r # g[1] \/ g[2] = "bulk" => done'[r] = done[r]
  /\ answer' = answer
  /\ early \subseteq early' /\ shadowed \subseteq shadowed'
  /\ \A e \in Events : row[e] = "finished" => row'[e] = "finished"

\* A goroutine that moves has not returned, nor has its request been answered.
Busy(g) == g[2] = "bulk" \/ (g \in Fetches(g[1]) /\ pc[g] \notin {"ok", "skipped"})

LEMMA WorkerStays ==
  ASSUME NEW r \in Requests, NEW e \in Events, WorkerContent(r, e),
         pc'[<<r, e>>] = pc[<<r, e>>], got'[<<r, e>>] = got[<<r, e>>],
         pc[<<r, e>>] = "members" => call'[<<r, e>>].whole = call[<<r, e>>].whole,
         ToSet(done[r]) \subseteq ToSet(done'[r]),
         early \subseteq early', shadowed \subseteq shadowed',
         row[e] = "finished" => row'[e] = "finished"
  PROVE  WorkerContent(r, e)'
<1>1. AllOf(e, got[<<r, e>>]) => AllOf(e, got[<<r, e>>])'
  BY DEF AllOf, FindMember, Complete
<1>2. OnCampfire(e)' = OnCampfire(e)
  BY DEF OnCampfire
<1>3. (\A m \in ToSet(Listed[e]) : Named(m) \in ToSet(call[<<r, e>>].whole)) /\ pc[<<r, e>>] = "members"
        => \A m \in ToSet(Listed[e]) : Named(m) \in ToSet(call'[<<r, e>>].whole)
  OBVIOUS
<1> QED BY <1>1, <1>2, <1>3 DEF WorkerContent

LEMMA RowStays ==
  ASSUME TableInv, TableStep, NEW e \in Events, RowContent(e), shadowed \subseteq shadowed',
         row'[e] = "finished" => row[e] = "finished"
  PROVE  RowContent(e)'
<1>1. \A m \in ToSet(Listed[e]) : m \in Members
  BY CampfireHasAll
<1>2. \A m \in Members : T!Known(m) => T!Known(m)'
  BY KnownStays DEF TableInv
<1> QED BY <1>1, <1>2 DEF RowContent

LEMMA OneMoves ==
  ASSUME TableInv, ContentInv, TableStep, NEW g \in Goroutines, OnlyMoves(g), Busy(g),
         \A e \in Events : RowContent(e)',
         \A r \in Requests, e \in Events : g = <<r, e>> => WorkerContent(r, e)',
         \A r \in Imports : g = <<r, "bulk">> => BulkContent(r)'
  PROVE  ContentInv'
<1>1. ASSUME NEW r \in Requests, NEW e \in Events, <<r, e>> # g PROVE WorkerContent(r, e)'
  <2>1. <<r, e>> \in Goroutines
    BY GoroutineParts
  <2> QED BY <1>1, <2>1, WorkerStays DEF OnlyMoves, ContentInv
<1>2. ASSUME NEW r \in Imports, <<r, "bulk">> # g PROVE BulkContent(r)'
  <2> DEFINE b == <<r, "bulk">>
  <2>1. b \in Goroutines /\ r \in Requests /\ BulkContent(r)
    BY GoroutineParts DEF Requests, ContentInv
  <2>2. pc'[b] = pc[b] /\ call'[b] = call[b]
    BY <1>2, <2>1 DEF OnlyMoves
  <2>3. ASSUME pc[b] \in {"members", "rsvps", "ok"}
        PROVE  (\A h \in Fetches(r) : pc'[h] = "ok") /\ done'[r] = done[r]
    <3>1. \A h \in Fetches(r) : pc[h] = "ok" /\ h \in Goroutines
      <4>1. \A e \in Asked[r] : e \in Events
        BY <2>1, RequestAssumption
      <4> QED BY <2>1, <2>3, <4>1, GoroutineParts DEF BulkContent, Fetches
    <3>2. g \notin Fetches(r)
      <4>1. \A e \in Asked[r] : <<r, e>>[1] = r /\ <<r, e>>[2] = e /\ e # "bulk"
        BY <2>1, RequestAssumption
      <4> QED BY <3>1, <4>1 DEF Busy, Fetches
    <3>3. g[1] # r \/ g[2] = "bulk"
      BY <3>2 DEF Busy
    <3> QED BY <2>1, <3>1, <3>2, <3>3 DEF OnlyMoves
  <2>4. ASSUME pc[b] = "members", NEW e \in ToSet(done'[r]), row'[e] # "finished",
               NEW m \in ToSet(Listed[e]) \ shadowed'
        PROVE  Named(m) \in ToSet(call'[b].whole)
    <3>1. e \in ToSet(done[r]) /\ done[r] \in Seq(Events)
      BY <2>1, <2>3, <2>4 DEF TableInv, RequestInv, Shape
    <3>2. e \in Events
      BY <3>1 DEF ToSet
    <3>3. row[e] # "finished" /\ m \in ToSet(Listed[e]) \ shadowed
      BY <2>4, <3>2 DEF OnlyMoves
    <3> QED BY <2>1, <2>2, <2>4, <3>1, <3>3 DEF BulkContent
  <2>5. Fetches(r)' = Fetches(r)
    BY DEF Fetches
  <2> QED BY <2>2, <2>3, <2>4, <2>5 DEF BulkContent
<1>3. ASSUME NEW r \in Exports PROVE AnswerContent(r)'
  <2>1. r \in Requests /\ AnswerContent(r)
    BY DEF Requests, ContentInv
  <2>2. \A h \in Fetches(r) : h \in Goroutines /\ h[1] = r /\ h[2] # "bulk"
    <3>1. \A e \in Asked[r] : e \in Events
      BY <2>1, RequestAssumption
    <3> QED BY <2>1, <3>1, GoroutineParts, RequestAssumption DEF Fetches
  <2>3. answer[r] = "exported" => g \notin Fetches(r)
    BY <2>1, <2>2 DEF AnswerContent, Busy
  <2>4. answer'[r] = "exported" => \A h \in Fetches(r) : pc'[h] \in {"ok", "skipped"}
    BY <2>1, <2>2, <2>3 DEF AnswerContent, OnlyMoves
  <2> QED BY <2>4 DEF AnswerContent, Fetches
<1>4. \A r \in Requests, e \in Events : WorkerContent(r, e)'
  BY <1>1
<1>5. \A r \in Imports : BulkContent(r)'
  BY <1>2
<1>6. answer' = [r \in Requests |-> answer'[r]]
  BY DEF ContentInv, OnlyMoves
<1> QED BY <1>3, <1>4, <1>5, <1>6 DEF ContentInv

\* The domains of the functions that change at one goroutine only.
LEMMA Domains ==
  ASSUME TableInv
  PROVE  /\ pc \in [Goroutines -> Calls]
         /\ got = [g \in Goroutines |-> got[g]]
         /\ call \in [Goroutines -> T!Calls]
         /\ done \in [Requests -> Seq(Events)]
         /\ \A e \in Events : row[e] = "finished" => e \in Ended
BY DEF TableInv, RequestInv, Shape, RowsInv, T!MemberInv, T!TypeOK

LEMMA RowsStay ==
  ASSUME TableInv, TableStep, ContentInv, UNCHANGED row, shadowed \subseteq shadowed'
  PROVE  \A e \in Events : RowContent(e)'
BY RowStays DEF ContentInv

\* A goroutine that has started was asked for.
LEMMA Started ==
  ASSUME ContentInv, NEW g \in Goroutines, pc[g] \notin {"look", "ok", "skipped"}
  PROVE  Busy(g)
<1>1. g[2] = "bulk" \/ (g[1] \in Requests /\ g[2] \in Events /\ g = <<g[1], g[2]>>)
  BY GoroutineParts
<1> QED BY <1>1 DEF Busy, ContentInv, WorkerContent, Fetches

\* A step of control.
LEMMA ControlContent ==
  ASSUME TableInv, ContentInv, TableStep, NEW g \in Goroutines, Busy(g),
         NEW v \in {"skipped", "error", "read", "update", "get"},
         pc' = [pc EXCEPT ![g] = v],
         v = "skipped" => g[2] \in Unsupported,
         \A h \in Goroutines : h # g => call'[h] = call[h],
         UNCHANGED <<row, got, done, answer, history>>
  PROVE  ContentInv'
<1>1. OnlyMoves(g)
  BY Domains DEF OnlyMoves, history
<1>2. \A e \in Events : RowContent(e)'
  BY RowsStay DEF history
<1>3. pc'[g] = v
  BY Domains
<1>4. ASSUME NEW r \in Requests, NEW e \in Events, g = <<r, e>> PROVE WorkerContent(r, e)'
  <2>1. g[2] = e /\ g[1] = r /\ e # "bulk"
    BY <1>4, RequestAssumption
  <2>2. e \in Asked[r]
    BY <1>4, <2>1 DEF Busy, Fetches
  <2> QED BY <1>3, <1>4, <2>1, <2>2 DEF WorkerContent
<1>5. ASSUME NEW r \in Imports, g = <<r, "bulk">> PROVE BulkContent(r)'
  BY <1>3, <1>5 DEF BulkContent
<1> QED BY <1>1, <1>2, <1>4, <1>5, OneMoves

LEMMA LookContent ==
  ASSUME TableInv, ContentInv, TableStep, NEW r \in Requests, NEW e \in Asked[r], e \in Events,
         Resolve(r, e) \/ Look(r, e) \/ LookFails(r, e)
  PROVE  ContentInv'
<1> DEFINE g == <<r, e>>
<1>1. g \in Goroutines /\ g \in Fetches(r) /\ g[1] = r /\ g[2] = e
  BY GoroutineParts DEF Fetches
<1>2. /\ pc[g] \in {"look", "read"}
      /\ UNCHANGED <<call, row, got, done, answer, history>>
  BY DEF Resolve, Look, LookFails
<1>3. Busy(g)
  BY <1>1, <1>2 DEF Busy
<1>4. row[e] \in {"absent", "open", "finished"}
  BY DEF TableInv, RequestInv, Shape
<1>5. \E v \in {"skipped", "error", "read", "update", "get"} :
        pc' = [pc EXCEPT ![g] = v] /\ (v = "skipped" => g[2] \in Unsupported)
  <2>1. CASE Resolve(r, e)
    BY <1>1, <2>1 DEF Resolve, Goto
  <2>2. CASE Look(r, e)
    BY <1>4, <2>2 DEF Look, Goto
  <2>3. CASE LookFails(r, e)
    BY <2>3 DEF LookFails, Goto
  <2> QED BY <2>1, <2>2, <2>3
<1> HIDE DEF g
<1> QED BY <1>1, <1>2, <1>3, <1>5, ControlContent

LEMMA StopsContent ==
  ASSUME TableInv, ContentInv, TableStep, NEW g \in Goroutines, Stops(g), Busy(g)
  PROVE  ContentInv'
<1>1. pc' = [pc EXCEPT ![g] = "error"] /\ UNCHANGED <<row, got, done, answer, history>>
  BY DEF Stops, EndsWith, Goto
<1>2. \A h \in Goroutines : h # g => call'[h] = call[h]
  BY Domains DEF Stops, EndsWith, T!InsertFails
<1> QED BY <1>1, <1>2, ControlContent

\* The goroutine returns: its request has the event, unless it has no RSVPs.
LEMMA Collects ==
  ASSUME TableInv, NEW r \in Requests, NEW e \in Events, NEW event, Collect(r, e, event)
  PROVE  /\ \A h \in Goroutines : pc'[h] = IF h = <<r, e>> THEN "ok" ELSE pc[h]
         /\ \A q \in Requests : /\ ToSet(done[q]) \subseteq ToSet(done'[q])
                                /\ q # r => done'[q] = done[q]
         /\ r \in Exports => e \in ToSet(done'[r]) \/ event.rsvps = <<>>
<1>1. done[r] \in Seq(Events) /\ done \in [Requests -> Seq(Events)] /\ pc \in [Goroutines -> Calls]
  BY Domains
<1>2. ToSet(Append(done[r], e)) = ToSet(done[r]) \cup {e}
  BY <1>1, Appended
<1>3. done' = done \/ done' = [done EXCEPT ![r] = Append(done[r], e)]
  BY DEF Collect
<1>4. r \in Exports /\ event.rsvps # <<>> => done' = [done EXCEPT ![r] = Append(done[r], e)]
  BY DEF Collect
<1>5. \A h \in Goroutines : pc'[h] = IF h = <<r, e>> THEN "ok" ELSE pc[h]
  BY <1>1 DEF Collect, Goto
<1> QED BY <1>1, <1>2, <1>3, <1>4, <1>5

\* A goroutine returns an event it has all of, or was early for.
LEMMA ReturnContent ==
  ASSUME TableInv, ContentInv, TableStep, NEW r \in Requests, NEW e \in Asked[r], e \in Events,
         NEW event, Collect(r, e, event),
         pc[<<r, e>>] \in {"read", "get", "rsvps"},
         \A h \in Goroutines : got'[h] = IF h = <<r, e>> THEN event ELSE got[h],
         event = OnCampfire(e) \/ row[e] = "finished",
         <<r, e>> \in early' \/ AllOf(e, event),
         early \subseteq early',
         UNCHANGED <<call, row, answer, shadowed>>
  PROVE  ContentInv'
<1> DEFINE g == <<r, e>>
<1>1. g \in Goroutines /\ g \in Fetches(r) /\ g[1] = r /\ g[2] = e /\ e # "bulk"
  BY GoroutineParts, RequestAssumption DEF Fetches
<1>2. OnlyMoves(g) /\ Busy(g)
  <2> HIDE DEF g
  <2>1. \A h \in Goroutines : pc'[h] = IF h = g THEN "ok" ELSE pc[h]
    BY Collects DEF g
  <2>2. \A q \in Requests : /\ ToSet(done[q]) \subseteq ToSet(done'[q])
                            /\ q # r => done'[q] = done[q]
    BY Collects
  <2>3. \A h \in Goroutines : h # g => got'[h] = got[h]
    BY DEF g
  <2>4. pc[g] \in {"read", "get", "rsvps"}
    BY DEF g
  <2> QED BY <1>1, <2>1, <2>2, <2>3, <2>4 DEF OnlyMoves, Busy
<1>3. \A f \in Events : RowContent(f)'
  BY RowsStay
<1>4. WorkerContent(r, e)'
  <2>1. pc'[g] = "ok" /\ (r \in Exports => e \in ToSet(done'[r]) \/ event.rsvps = <<>>)
    BY <1>1, Collects
  <2>2. got'[g] = event /\ OnCampfire(e)' = OnCampfire(e)
    BY <1>1 DEF OnCampfire
  <2>3. AllOf(e, event) => AllOf(e, got[g])'
    BY <2>2 DEF AllOf, FindMember, Complete
  <2> QED BY <1>1, <2>1, <2>2, <2>3 DEF WorkerContent
<1>5. ASSUME NEW r1 \in Requests, NEW e1 \in Events, g = <<r1, e1>> PROVE WorkerContent(r1, e1)'
  <2>1. r1 = r /\ e1 = e
    BY <1>5
  <2> QED BY <1>4, <2>1
<1>6. \A r1 \in Imports : g # <<r1, "bulk">>
  BY <1>1
<1> HIDE DEF g
<1> QED BY <1>1, <1>2, <1>3, <1>5, <1>6, OneMoves

LEMMA UnmarshalContent ==
  ASSUME TableInv, ContentInv, TableStep, NEW r \in Requests, NEW e \in Asked[r], e \in Events,
         UnmarshalEvent(r, e)
  PROVE  ContentInv'
<1>1. <<r, e>> \in Goroutines
  BY GoroutineParts
<1>2. pc[<<r, e>>] = "read" /\ row[e] = "finished"
  BY DEF UnmarshalEvent, TableInv, RequestInv, WorkerInv
<1>3. <<r, e>> \in early' \/ AllOf(e, InDatabase(e))
  BY <1>2, DatabaseHasAll DEF UnmarshalEvent, TableInv, ContentInv
<1>4. \A h \in Goroutines : got'[h] = IF h = <<r, e>> THEN InDatabase(e) ELSE got[h]
  BY Domains DEF UnmarshalEvent
<1>5. /\ Collect(r, e, InDatabase(e)) /\ early \subseteq early'
      /\ UNCHANGED <<call, row, answer, shadowed>>
  BY DEF UnmarshalEvent
<1> QED BY <1>2, <1>3, <1>4, <1>5, ReturnContent

LEMMA GetContent ==
  ASSUME TableInv, ContentInv, TableStep, NEW r \in Requests, NEW e \in Asked[r], e \in Events,
         GetEvent(r, e)
  PROVE  ContentInv'
<1> DEFINE g == <<r, e>>
<1>1. g \in Goroutines /\ g \in Fetches(r) /\ g[1] = r /\ g[2] = e /\ e # "bulk"
  BY GoroutineParts, RequestAssumption DEF Fetches
<1>2. /\ \A h \in Goroutines : got'[h] = IF h = <<r, e>> THEN OnCampfire(e) ELSE got[h]
      /\ UNCHANGED <<row, answer, history>>
  BY Domains DEF GetEvent
<1>3. CASE pc[g] = "get" /\ Collect(r, e, OnCampfire(e)) /\ UNCHANGED call
  BY <1>2, <1>3, CampfireHasAll, ReturnContent DEF history
<1>4. CASE /\ pc[g] = "update" /\ Goto(g, "creator") /\ UNCHANGED done
           /\ T!InsertMembers(g, <<Named(Organizer)>>)
  <2>1. \A h \in Goroutines : pc'[h] = IF h = g THEN "creator" ELSE pc[h]
    BY <1>4, Domains DEF Goto
  <2>2. \A h \in Goroutines : h # g => call'[h] = call[h]
    BY <1>4, Domains DEF T!InsertMembers
  <2>3. OnlyMoves(g) /\ Busy(g)
    BY <1>1, <1>2, <1>4, <2>1, <2>2 DEF OnlyMoves, Busy, history
  <2>4. \A f \in Events : RowContent(f)'
    BY <1>2, RowsStay DEF history
  <2>5. WorkerContent(r, e)'
    <3>1. pc'[g] = "creator" /\ got'[g] = OnCampfire(e) /\ OnCampfire(e)' = OnCampfire(e)
      BY <1>1, <1>2, <2>1 DEF OnCampfire
    <3> QED BY <3>1 DEF WorkerContent
  <2>6. ASSUME NEW r1 \in Requests, NEW e1 \in Events, g = <<r1, e1>> PROVE WorkerContent(r1, e1)'
    <3>1. r1 = r /\ e1 = e
      BY <2>6
    <3> QED BY <2>5, <3>1
  <2>7. \A r1 \in Imports : g # <<r1, "bulk">>
    BY <1>1
  <2> HIDE DEF g
  <2> QED BY <1>1, <2>3, <2>4, <2>6, <2>7, OneMoves
<1> QED BY <1>3, <1>4 DEF GetEvent

LEMMA ListedContent ==
  ASSUME TableInv, ContentInv, TableStep, NEW r \in Requests, NEW e \in Asked[r], e \in Events,
         InsertListed(<<r, e>>)
  PROVE  ContentInv'
<1> DEFINE g == <<r, e>>
           list == AddMissing(got[g].members, Entries(Placeholder, got[g].rsvps))
<1>1. g \in Goroutines /\ g \in Fetches(r) /\ g[1] = r /\ g[2] = e /\ e # "bulk"
  BY GoroutineParts, RequestAssumption DEF Fetches
<1>2. /\ pc[g] = "creator" /\ T!InsertMembers(g, list) /\ Goto(g, "members")
      /\ UNCHANGED <<row, got, done, answer, history>>
  BY DEF InsertListed
<1>3. \A m \in ToSet(Listed[e]) : Named(m) \in ToSet(list)
  <2>1. got[g] = OnCampfire(e)
    BY <1>2 DEF ContentInv, WorkerContent
  <2>2. Fetched(got[g])
    BY DEF TableInv, ListsInv
  <2>3. ToSet(got[g].members) \subseteq ToSet(list)
    BY <2>2, EntryTypes, AddMissingExtends DEF Fetched, Extensions
  <2> QED BY <2>1, <2>3, CampfireHasAll
<1> HIDE DEF list
<1>4. \A h \in Goroutines : pc'[h] = IF h = g THEN "members" ELSE pc[h]
  BY <1>2, Domains DEF Goto
<1>5. call'[g].whole = list /\ \A h \in Goroutines : h # g => call'[h] = call[h]
  BY <1>1, <1>2, Domains DEF T!InsertMembers
<1>6. OnlyMoves(g) /\ Busy(g)
  BY <1>1, <1>2, <1>4, <1>5 DEF OnlyMoves, Busy, history
<1>7. \A f \in Events : RowContent(f)'
  BY <1>2, RowsStay DEF history
<1>8. WorkerContent(r, e)'
  <2>1. got'[g] = got[g] /\ got[g] = OnCampfire(e) /\ OnCampfire(e)' = OnCampfire(e)
    BY <1>2 DEF OnCampfire, ContentInv, WorkerContent
  <2>2. pc'[g] = "members"
    BY <1>1, <1>4
  <2>3. \A m \in ToSet(Listed[e]) : Named(m) \in ToSet(call'[g].whole)
    BY <1>3, <1>5
  <2> QED BY <2>1, <2>2, <2>3 DEF WorkerContent
<1>9. ASSUME NEW r1 \in Requests, NEW e1 \in Events, g = <<r1, e1>> PROVE WorkerContent(r1, e1)'
  <2>1. r1 = r /\ e1 = e
    BY <1>9
  <2> QED BY <1>8, <2>1
<1>10. \A r1 \in Imports : g # <<r1, "bulk">>
  BY <1>1
<1> HIDE DEF g
<1> QED BY <1>1, <1>6, <1>7, <1>9, <1>10, OneMoves

LEMMA UpsertContent ==
  ASSUME TableInv, ContentInv, TableStep, NEW g \in Goroutines, Upsert(g)
  PROVE  ContentInv'
<1>1. /\ pc[g] \in {"creator", "members"}
      /\ UNCHANGED <<row, pc, got, done, answer, history>>
  BY DEF Upsert, locals
<1>2. call'[g].whole = call[g].whole /\ \A h \in Goroutines : h # g => call'[h] = call[h]
  <2>1. call \in [Goroutines -> T!Calls]
    BY Domains
  <2>2. call[g] \in T!Calls
    BY <2>1
  <2> QED BY <2>1, <2>2 DEF Upsert, T!InsertChunk, T!Commit, T!Calls
<1>3. OnlyMoves(g) /\ Busy(g)
  BY <1>1, <1>2, Started DEF OnlyMoves, history
<1>4. \A e \in Events : RowContent(e)'
  BY <1>1, RowsStay DEF history
<1>5. ASSUME NEW r \in Requests, NEW e \in Events, g = <<r, e>> PROVE WorkerContent(r, e)'
  BY <1>1, <1>2, <1>5, WorkerStays DEF ContentInv, history
<1>6. ASSUME NEW r \in Imports, g = <<r, "bulk">> PROVE BulkContent(r)'
  <2>1. BulkContent(r)
    BY DEF ContentInv
  <2>2. UNCHANGED <<row, pc, done, shadowed>> /\ call'[<<r, "bulk">>].whole = call[<<r, "bulk">>].whole
    BY <1>1, <1>2, <1>6 DEF history
  <2> QED BY <2>1, <2>2 DEF BulkContent, Fetches
<1> QED BY <1>3, <1>4, <1>5, <1>6, OneMoves

\* Who marks a row as finished has stored the members of the event.
LEMMA EventsContent ==
  ASSUME TableInv, ContentInv, TableStep, NEW g \in Goroutines, InsertEvents(g)
  PROVE  ContentInv'
<1>1. /\ pc[g] = "members" /\ call[g].pc = "committed" /\ Goto(g, "rsvps")
      /\ row' = [e \in Events |-> IF e \notin Writes(g) THEN row[e]
                                  ELSE IF e \in Ended THEN "finished" ELSE "open"]
      /\ UNCHANGED <<name, call, got, done, answer, history>>
  BY DEF InsertEvents
<1>2. \A h \in Goroutines : pc'[h] = IF h = g THEN "rsvps" ELSE pc[h]
  BY <1>1, Domains DEF Goto
<1>3. \A e \in Events : row[e] = "finished" => row'[e] = "finished"
  BY <1>1, Domains
<1>4. OnlyMoves(g) /\ Busy(g)
  BY <1>1, <1>2, <1>3, Started DEF OnlyMoves, history
<1>5. \A x \in ToSet(call[g].whole) : x.name # "" => T!Known(x.id)
  <2>1. \A i \in DOMAIN call[g].whole : T!Stored(call[g].whole[i])
    BY <1>1, Committed DEF BatchStored, T!BatchStored, TableInv
  <2> QED BY <2>1 DEF T!Stored, ToSet
<1>6. \A m \in Members : Named(m) \in ToSet(call[g].whole) => T!Known(m)
  <2>1. \A m \in Members : Named(m).id = m /\ Named(m).name # ""
    BY DEF Named
  <2> QED BY <1>5, <2>1
<1>7. ASSUME NEW e \in Events PROVE RowContent(e)'
  <2>1. CASE row'[e] = "finished" => row[e] = "finished"
    BY <1>1, <2>1, RowStays DEF ContentInv, history
  <2>2. CASE row'[e] = "finished" /\ row[e] # "finished"
    <3>1. e \in Writes(g)
      BY <1>1, <2>2
    <3>2. \A m \in ToSet(Listed[e]) \ shadowed : Named(m) \in ToSet(call[g].whole)
      <4>1. CASE g[2] = "bulk"
        <5>1. e \in ToSet(done[g[1]])
          BY <3>1, <4>1 DEF Writes
        <5>2. PICK r \in Imports : g = <<r, "bulk">>
          BY <4>1, RequestAssumption DEF Goroutines
        <5>3. BulkContent(r) /\ g[1] = r
          BY <5>2 DEF ContentInv
        <5> QED BY <1>1, <2>2, <5>1, <5>2, <5>3 DEF BulkContent
      <4>2. CASE g[2] # "bulk"
        <5>1. g = <<g[1], e>> /\ g[1] \in Requests
          BY <3>1, <4>2, GoroutineParts DEF Writes
        <5>2. WorkerContent(g[1], e)
          BY <5>1 DEF ContentInv
        <5>3. \A m \in ToSet(Listed[e]) : Named(m) \in ToSet(call[<<g[1], e>>].whole)
          BY <1>1, <5>1, <5>2 DEF WorkerContent
        <5> QED BY <5>1, <5>3
      <4> QED BY <4>1, <4>2
    <3>3. \A m \in ToSet(Listed[e]) \ shadowed : T!Known(m)
      BY <1>6, <3>2, CampfireHasAll
    <3> QED BY <1>1, <3>3 DEF RowContent, T!Known, history
  <2> QED BY <2>1, <2>2
<1>8. ASSUME NEW r \in Requests, NEW e \in Events, g = <<r, e>> PROVE WorkerContent(r, e)'
  <2>1. got'[<<r, e>>] = OnCampfire(e) /\ e \in Asked[r]
    BY <1>1, <1>8 DEF ContentInv, WorkerContent
  <2>2. pc'[<<r, e>>] = "rsvps" /\ OnCampfire(e)' = OnCampfire(e)
    BY <1>2, <1>8 DEF OnCampfire
  <2> QED BY <2>1, <2>2 DEF WorkerContent
<1>9. ASSUME NEW r \in Imports, g = <<r, "bulk">> PROVE BulkContent(r)'
  <2>1. \A h \in Fetches(r) : pc[h] = "ok" /\ h \in Goroutines
    <3>1. \A e \in Asked[r] : e \in Events
      BY RequestAssumption DEF Requests
    <3> QED BY <1>1, <1>9, <3>1, GoroutineParts DEF ContentInv, BulkContent, Fetches, Requests
  <2>2. \A h \in Fetches(r) : pc'[h] = "ok"
    BY <1>1, <1>2, <2>1
  <2> QED BY <1>2, <1>9, <2>2 DEF BulkContent, Fetches
<1> QED BY <1>4, <1>7, <1>8, <1>9, OneMoves

LEMMA RSVPsContent ==
  ASSUME TableInv, ContentInv, TableStep, NEW g \in Goroutines, InsertEventRSVPs(g)
  PROVE  ContentInv'
<1>1. pc[g] = "rsvps" /\ UNCHANGED <<call, row, got, answer, history>>
  BY DEF InsertEventRSVPs
<1>2. CASE g[2] = "bulk"
  <2>1. \A h \in Goroutines : pc'[h] = IF h = g THEN "ok" ELSE pc[h]
    BY <1>2, Domains DEF InsertEventRSVPs, Goto
  <2>2. UNCHANGED done
    BY <1>2 DEF InsertEventRSVPs
  <2>3. OnlyMoves(g) /\ Busy(g)
    BY <1>1, <1>2, <2>1, <2>2 DEF OnlyMoves, Busy, history
  <2>4. \A e \in Events : RowContent(e)'
    BY <1>1, RowsStay DEF history
  <2>5. \A r \in Requests, e \in Events : g # <<r, e>>
    BY <1>2, RequestAssumption
  <2>6. ASSUME NEW r \in Imports, g = <<r, "bulk">> PROVE BulkContent(r)'
    <3>1. \A h \in Fetches(r) : pc[h] = "ok" /\ h \in Goroutines
      <4>1. \A e \in Asked[r] : e \in Events
        BY RequestAssumption DEF Requests
      <4> QED BY <1>1, <2>6, <4>1, GoroutineParts DEF ContentInv, BulkContent, Fetches, Requests
    <3>2. \A h \in Fetches(r) : pc'[h] = "ok"
      BY <2>1, <3>1
    <3> QED BY <2>1, <2>6, <3>2 DEF BulkContent, Fetches
  <2> QED BY <2>3, <2>4, <2>5, <2>6, OneMoves
<1>3. CASE g[2] # "bulk"
  <2> DEFINE r == g[1]
             e == g[2]
  <2>1. r \in Requests /\ e \in Events /\ g = <<r, e>>
    BY <1>3, GoroutineParts
  <2>2. Collect(r, e, got[g])
    BY <1>3 DEF InsertEventRSVPs
  <2> HIDE DEF r, e
  <2>3. got[g] = OnCampfire(e) /\ e \in Asked[r]
    BY <1>1, <2>1 DEF ContentInv, WorkerContent
  <2>4. AllOf(e, got[g])
    BY <2>1, <2>3, CampfireHasAll
  <2>5. \A h \in Goroutines : got'[h] = IF h = <<r, e>> THEN got[g] ELSE got[h]
    BY <1>1, <2>1
  <2>6. pc[<<r, e>>] \in {"read", "get", "rsvps"} /\ early \subseteq early' /\ UNCHANGED shadowed
    BY <1>1, <2>1 DEF history
  <2> QED BY <1>1, <2>1, <2>2, <2>3, <2>4, <2>5, <2>6, ReturnContent
<1> QED BY <1>2, <1>3

\* The names a bulk import drops are the ones history remembers.
LEMMA BulkProcessContent ==
  ASSUME TableInv, ContentInv, TableStep, NEW r \in Imports, BulkProcessEvents(r)
  PROVE  ContentInv'
<1> DEFINE b == <<r, "bulk">>
<1>1. b \in Goroutines /\ r \in Requests /\ b[1] = r /\ b[2] = "bulk"
  BY GoroutineParts DEF Requests
<1>2. /\ \A g \in Fetches(r) : pc[g] = "ok"
      /\ T!InsertMembers(b, AllMembers(r)) /\ Goto(b, "members") /\ pc[b] = "wait"
      /\ UNCHANGED <<row, got, done, answer, early>>
  BY DEF BulkProcessEvents
<1>3. /\ shadowed \subseteq shadowed'
      /\ \A m \in Members, e \in ToSet(done[r]) :
           Named(m) \in ToSet(got[<<r, e>>].members) /\ m \notin shadowed'
             => Named(m) \in ToSet(AllMembers(r))
  BY DEF BulkProcessEvents
<1>4. \A h \in Goroutines : pc'[h] = IF h = b THEN "members" ELSE pc[h]
  BY <1>2, Domains DEF Goto
<1>5. call'[b].whole = AllMembers(r) /\ \A h \in Goroutines : h # b => call'[h] = call[h]
  BY <1>1, <1>2, Domains DEF T!InsertMembers
<1>6. OnlyMoves(b) /\ Busy(b)
  BY <1>1, <1>2, <1>3, <1>4, <1>5 DEF OnlyMoves, Busy
<1>7. \A e \in Events : RowContent(e)'
  BY <1>2, <1>3, RowsStay
<1>8. \A r1 \in Requests, e1 \in Events : b # <<r1, e1>>
  BY RequestAssumption
<1>9. BulkContent(r)'
  <2>1. \A g \in Fetches(r) : pc'[g] = "ok"
    <3>1. \A e \in Asked[r] : e \in Events
      BY <1>1, RequestAssumption
    <3>2. \A g \in Fetches(r) : g \in Goroutines
      BY <1>1, <3>1, GoroutineParts DEF Fetches
    <3> QED BY <1>2, <1>4, <3>2
  <2>2. ASSUME NEW e \in ToSet(done[r]), row[e] # "finished",
               NEW m \in ToSet(Listed[e]) \ shadowed'
        PROVE  Named(m) \in ToSet(AllMembers(r))
    <3>1. done[r] \in Seq(Events)
      BY <1>1, Domains
    <3>2. e \in Events
      BY <3>1 DEF ToSet
    <3>3. pc[<<r, e>>] = "ok"
      BY <1>1, <3>2 DEF TableInv, RequestInv, WorkerInv
    <3>4. got[<<r, e>>] = OnCampfire(e)
      BY <1>1, <2>2, <3>2, <3>3 DEF ContentInv, WorkerContent
    <3>5. m \in Members /\ Named(m) \in ToSet(OnCampfire(e).members)
      BY <3>2, CampfireHasAll
    <3> QED BY <1>3, <3>4, <3>5
  <2> QED BY <1>2, <1>5, <2>1, <2>2 DEF BulkContent, Fetches
<1>10. ASSUME NEW r1 \in Imports, b = <<r1, "bulk">> PROVE BulkContent(r1)'
  <2>1. r1 = r
    BY <1>10
  <2> QED BY <1>9, <2>1
<1> HIDE DEF b
<1> QED BY <1>1, <1>6, <1>7, <1>8, <1>10, OneMoves

LEMMA AnswersContent ==
  ASSUME TableInv, ContentInv, TableStep, NEW r \in Requests,
         (r \in Exports /\ Export(r)) \/ Leave(r) \/ (r \in Imports /\ Import(r))
  PROVE  ContentInv'
<1>1. /\ UNCHANGED <<call, row, pc, got, done, history>>
      /\ \A q \in Exports : answer'[q] = "exported" =>
           answer[q] = "exported" \/ \A g \in Fetches(q) : pc[g] \in Terminal \ {"error"}
  <2>1. UNCHANGED <<call, row, pc, got, done, history>>
    BY DEF Export, Leave, Import
  <2>2. \E v : /\ answer' = [answer EXCEPT ![r] = v]
               /\ v = "exported" => \A g \in Fetches(r) : pc[g] \in Terminal \ {"error"}
    BY DEF Export, Leave, Import, Terminal
  <2>3. answer = [q \in Requests |-> answer[q]]
    BY DEF ContentInv
  <2> QED BY <2>1, <2>2, <2>3 DEF Requests
<1>2. \A q \in Requests, e \in Events : WorkerContent(q, e)'
  BY <1>1, WorkerStays DEF ContentInv, history
<1>3. \A e \in Events : RowContent(e)'
  BY <1>1, RowsStay DEF history
<1>4. \A q \in Imports : BulkContent(q)'
  BY <1>1 DEF ContentInv, BulkContent, Fetches, history
<1>5. \A q \in Exports : AnswerContent(q)'
  BY <1>1 DEF ContentInv, AnswerContent, Fetches, Terminal
<1>6. answer' = [q \in Requests |-> answer'[q]]
  BY DEF ContentInv, Export, Leave, Import
<1> QED BY <1>2, <1>3, <1>4, <1>5, <1>6 DEF ContentInv

LEMMA NextContent ==
  ASSUME TableInv, ContentInv, TableStep, [Next]_vars
  PROVE  ContentInv'
<1>1. CASE UNCHANGED vars
  <2>1. UNCHANGED <<name, call, row, rsvp, pc, got, done, answer, early, shadowed>>
    BY <1>1 DEF vars, locals, history
  <2>2. \A q \in Requests, e \in Events : WorkerContent(q, e)'
    BY <2>1, WorkerStays DEF ContentInv
  <2>3. \A e \in Events : RowContent(e)'
    BY <2>1, RowsStay
  <2>4. \A q \in Imports : BulkContent(q)'
    BY <2>1 DEF ContentInv, BulkContent, Fetches
  <2>5. \A q \in Exports : AnswerContent(q)'
    BY <2>1 DEF ContentInv, AnswerContent, Fetches
  <2> QED BY <2>1, <2>2, <2>3, <2>4, <2>5 DEF ContentInv
<1>2. ASSUME NEW r \in Requests, NEW e \in Events, e \in Asked[r],
             \/ Resolve(r, e) \/ Look(r, e) \/ LookFails(r, e)
             \/ UnmarshalEvent(r, e) \/ GetEvent(r, e)
             \/ InsertListed(<<r, e>>)
      PROVE  ContentInv'
  BY <1>2, LookContent, UnmarshalContent, GetContent, ListedContent
<1>3. ASSUME NEW r \in Requests, NEW e \in Events, e \in Asked[r], Cancelled(<<r, e>>)
      PROVE  ContentInv'
  <2>1. <<r, e>> \in Goroutines /\ <<r, e>>[1] = r /\ <<r, e>> \in Fetches(r)
    BY <1>3, GoroutineParts DEF Fetches
  <2>2. Busy(<<r, e>>) /\ Stops(<<r, e>>)
    BY <1>3, <2>1 DEF Busy, Cancelled, Terminal
  <2> QED BY <2>1, <2>2, StopsContent
<1>4. ASSUME NEW g \in Goroutines, Fails(g) PROVE ContentInv'
  <2>1. Busy(g) /\ Stops(g)
    BY <1>4, Started DEF Fails
  <2> QED BY <2>1, StopsContent
<1>5. ASSUME NEW g \in Goroutines, Upsert(g) \/ InsertEvents(g) \/ InsertEventRSVPs(g)
      PROVE  ContentInv'
  BY <1>5, UpsertContent, EventsContent, RSVPsContent
<1>6. ASSUME NEW r \in Exports, Export(r) \/ Leave(r) PROVE ContentInv'
  BY <1>6, AnswersContent DEF Requests
<1>7. ASSUME NEW r \in Imports, BulkProcessEvents(r) \/ Import(r) PROVE ContentInv'
  BY <1>7, AnswersContent, BulkProcessContent DEF Requests
<1>8. CASE Next
  BY <1>2, <1>3, <1>4, <1>5, <1>6, <1>7, <1>8 DEF Next
<1> QED BY <1>1, <1>8

\* What goroutines, rows and answers know of the events, in every state.
THEOREM ContentInvariant == Spec => []ContentInv
<1>1. ContentInv /\ (T!MemberInv /\ ListsInv) /\ RequestInv /\ [Next]_vars => ContentInv'
  BY NextTable, NextContent DEF TableInv
<1> QED BY <1>1, ContentInit, TableInvariant, RequestInvariant, PTL DEF Spec

\* An export that is answered has every event with RSVPs that was asked for,
\* every RSVP of it, and each of them with its member if Campfire lists it.
THEOREM ExportsAreComplete == Spec => []ExportComplete
<1>1. ContentInv => ExportComplete
  <2> SUFFICES ASSUME ContentInv, NEW r \in Exports, answer[r] = "exported",
                      NEW e \in Asked[r] \ Unsupported, RSVPs[e] # <<>>, <<r, e>> \notin early
               PROVE  e \in ToSet(done[r]) /\ AllOf(e, got[<<r, e>>])
    BY DEF ExportComplete, AllOf
  <2>1. r \in Requests /\ e \in Events
    BY RequestAssumption DEF Requests
  <2>2. pc[<<r, e>>] = "ok"
    BY <2>1 DEF ContentInv, AnswerContent, WorkerContent, Fetches
  <2>3. AllOf(e, got[<<r, e>>]) /\ (e \in ToSet(done[r]) \/ got[<<r, e>>].rsvps = <<>>)
    BY <2>1, <2>2 DEF ContentInv, WorkerContent
  <2>4. got[<<r, e>>].rsvps # <<>>
    <3>1. RSVPs[e] \in Seq(Members)
      BY <2>1, RequestAssumption
    <3>2. 1 \in DOMAIN RSVPs[e]
      BY <3>1
    <3>3. RSVPs[e][1] \in ToSet(RSVPs[e])
      BY <3>2 DEF ToSet
    <3>4. ToSet(<<>>) = {}
      BY DEF ToSet
    <3> QED BY <2>3, <3>3, <3>4 DEF AllOf, Complete
  <2> QED BY <2>3, <2>4
<1> QED BY <1>1, ContentInvariant, PTL
=============================================================================
