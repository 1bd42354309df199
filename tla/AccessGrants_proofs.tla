------------------------- MODULE AccessGrants_proofs -------------------------
(***************************************************************************)
(* Proofs about AccessGrants, for every set of users, third parties,       *)
(* records and workers, and every bound.                                   *)
(***************************************************************************)
EXTENDS AccessGrants, WellFoundedInduction, SequenceTheorems, TLAPS

-----------------------------------------------------------------------------
(* The smallest and the largest number of a set.                           *)

\* Every nonempty set of naturals has a least element.
LEMMA LeastNat ==
    ASSUME NEW T \in SUBSET Nat, T # {}
    PROVE  \E x \in T : \A y \in T : x <= y
<1>1. PICK x \in T : \A y \in T : ~(<<y, x>> \in OpToRel(<, Nat))
  BY WFMin, NatLessThanWellFounded
<1>2. ASSUME NEW y \in T PROVE x <= y
  <2>1. <<y, x>> \in OpToRel(<, Nat) <=> y < x
    BY DEF OpToRel
  <2>2. ~(y < x)
    BY <2>1, <1>1
  <2>3. QED
    BY <2>2
<1>3. QED
  BY <1>2

\* A bounded nonempty set of naturals has a maximum.
LEMMA MaxExists ==
    ASSUME NEW n \in Nat, NEW S \in SUBSET (0..n), S # {}
    PROVE  Max(S) \in S /\ \A y \in S : Max(S) >= y
<1> DEFINE T == {n - y : y \in S}
<1>1. T \in SUBSET Nat
  OBVIOUS
<1>2. PICK y0 \in S : TRUE
  OBVIOUS
<1>3. n - y0 \in T
  OBVIOUS
<1>4. PICK x \in T : \A y \in T : x <= y
  <2> HIDE DEF T
  <2> QED
    BY <1>1, <1>3, LeastNat
<1>5. PICK m \in S : x = n - m
  OBVIOUS
<1>6. \A y \in S : m >= y
  BY <1>4, <1>5
<1>7. QED
  BY <1>6 DEF Max

-----------------------------------------------------------------------------
(* The inductive invariant.                                                *)

\* Sequences lead to requests that exist; a revoked one to a revoke request.
Linked ==
    \A k \in DOMAIN seqs :
        /\ seqs[k].grant \in DOMAIN requests
        /\ seqs[k].order <= MaxOrder
        /\ seqs[k].revoke # 0 => /\ seqs[k].revoke \in DOMAIN requests
                                 /\ requests[seqs[k].revoke].kind = "revoke"

\* Sequence k is one that job j may revoke.
MayRevoke(j, k, reqs, rows) ==
    /\ k \in DOMAIN rows
    /\ rows[k].record = j.record
    /\ reqs[rows[k].grant].user = reqs[j.request].user
    /\ reqs[j.request].ids = {} \/ Id(rows[k]) \in reqs[j.request].ids

\* The task and the records of job j are those of its request.
Placed(j, reqs) ==
    /\ j.request \in DOMAIN reqs
    /\ reqs[j.request].kind = IF j.task = "revoke" THEN "revoke" ELSE "grant"
    /\ j.step = "add" => j.task = "grant"
    /\ j.step \in {"number", "create"} => j.task # "revoke"
    /\ j.step \in {"close", "extend", "remove"} => j.task = "revoke"
    /\ j.step # "next" => j.record \in Records
    /\ j.task = "revoke" => j.left \subseteq reqs[j.request].records
    /\ j.task = "revoke" /\ j.step # "next" => j.record \in reqs[j.request].records

\* What job j has read.
Informed(j, reqs, rows) ==
    /\ j.step = "create" => j.number <= MaxOrder
    /\ \A k \in j.rows : MayRevoke(j, k, reqs, rows)
    /\ j.step = "extend" => j.row \in j.rows

Sound(j, reqs, rows) == Placed(j, reqs) /\ Informed(j, reqs, rows)

JobsSound == \A w \in Workers : job[w] # Nothing => Sound(job[w], requests, seqs)

\* As long as no two workers have numbered sequences of a grant at once, the
\* number a worker is about to use is still above all others.
NumbersFresh ==
    ~raced =>
        \A w \in Workers : At(w, "create") =>
            /\ \A k \in DOMAIN seqs :
                  seqs[k].grant = job[w].request => seqs[k].order < job[w].number
            /\ \A v \in Workers :
                  v # w /\ At(v, "create") => job[v].request # job[w].request

IInv ==
    /\ TypeOK /\ Linked /\ JobsSound /\ NumbersFresh
    /\ AccessBehindSequence /\ OnlyNamedRevoked /\ IdsDistinct

\* What no step changes in a request: whose it is, its kind, the ids it names
\* and, in a revoke request, its records.
Kept ==
    /\ DOMAIN requests \subseteq DOMAIN requests'
    /\ \A i \in DOMAIN requests :
        /\ requests'[i].user = requests[i].user
        /\ requests'[i].kind = requests[i].kind
        /\ requests'[i].ids = requests[i].ids
        /\ requests[i].kind = "revoke" => requests'[i].records = requests[i].records

\* What no step changes in a sequence.
SeqsKept ==
    /\ DOMAIN seqs \subseteq DOMAIN seqs'
    /\ \A k \in DOMAIN seqs :
        /\ seqs'[k].record = seqs[k].record
        /\ seqs'[k].grant = seqs[k].grant
        /\ seqs'[k].order = seqs[k].order

-----------------------------------------------------------------------------
(* Requests.                                                               *)

\* Setting fields of one request that may change keeps the requests.
LEMMA UpdateKeeps ==
    ASSUME requests \in Seq(Request), NEW i \in DOMAIN requests,
           NEW q \in Request, requests' = [requests EXCEPT ![i] = q],
           q.user = requests[i].user, q.kind = requests[i].kind,
           q.ids = requests[i].ids,
           requests[i].kind = "revoke" => q.records = requests[i].records
    PROVE  requests' \in Seq(Request) /\ Kept
<1>1. DOMAIN requests = 1..Len(requests)
  BY LenProperties
<1>2. /\ requests' \in Seq(Request)
      /\ Len(requests') = Len(requests)
      /\ \A j \in DOMAIN requests : requests'[j] = IF j = i THEN q ELSE requests[j]
  BY <1>1, ExceptSeq
<1>3. DOMAIN requests' = DOMAIN requests
  BY <1>1, <1>2, LenProperties
<1>4. QED
  BY <1>2, <1>3 DEF Kept

\* So does creating a request.
LEMMA AppendKeeps ==
    ASSUME requests \in Seq(Request), NEW q \in Request,
           requests' = Append(requests, q)
    PROVE  requests' \in Seq(Request) /\ Kept
<1>1. DOMAIN requests = 1..Len(requests) /\ Len(requests) \in Nat
  BY LenProperties
<1>2. /\ requests' \in Seq(Request)
      /\ Len(requests') = Len(requests) + 1
      /\ \A j \in DOMAIN requests : requests'[j] = requests[j]
  BY <1>1, AppendProperties
<1>3. DOMAIN requests' = 1..(Len(requests) + 1)
  BY <1>2, LenProperties
<1>4. QED
  BY <1>1, <1>2, <1>3 DEF Kept

\* The id the form offers is an id.
LEMMA OfferedType ==
    ASSUME TypeOK, NEW i \in DOMAIN requests, NEW r \in Records
    PROVE  Offered(i, r) \in Ids
<1>1. i \in Nat
  BY LenProperties DEF TypeOK
<1>2. CASE Of(i, r) = {}
  BY <1>1, <1>2 DEF Offered, Ids
<1>3. CASE Of(i, r) # {}
  <2>1. \A k \in DOMAIN seqs : seqs[k] \in Sequence
    BY DEF TypeOK
  <2> DEFINE T == {seqs[k].order : k \in Of(i, r)}
  <2>2. T \in SUBSET Nat /\ T # {}
    BY <1>3, <2>1 DEF Of, Sequence
  <2>3. PICK x \in T : \A y \in T : x <= y
    <3> HIDE DEF T
    <3> QED
      BY <2>2, LeastNat
  <2>4. \E k \in Of(i, r) : \A m \in Of(i, r) : seqs[k].order <= seqs[m].order
    BY <2>3
  <2>5. (CHOOSE k \in Firsts(i, r) : TRUE) \in Of(i, r)
    BY <2>4 DEF Firsts
  <2>6. ASSUME NEW k \in DOMAIN seqs PROVE Id(seqs[k]) \in Ids
    BY <2>1 DEF Id, Ids, Sequence
  <2>7. QED
    BY <1>3, <2>5, <2>6 DEF Offered, Of
<1>4. QED
  BY <1>2, <1>3

\* A wish becomes a request.
LEMMA SubmittedType ==
    ASSUME NEW kind \in {"grant", "revoke"}, NEW wish, NEW ids \in SUBSET Ids,
           wish.user \in Users, wish.party \in Parties \cup {Oneself},
           wish.records \in (SUBSET Records) \ {{}}
    PROVE  /\ Submitted(kind, wish, ids) \in Request
           /\ Submitted(kind, wish, ids).user = wish.user
BY DEF Submitted, Request, Statuses, AdminStatuses

\* Every step keeps the requests.
LEMMA RequestsStep ==
    ASSUME TypeOK, Next
    PROVE  requests' \in Seq(Request) /\ Kept
<1> USE DEF TypeOK
<1>1. CASE UNCHANGED requests
  BY <1>1 DEF Kept
<1>2. ASSUME NEW w \in Submitters, CreateRequest(w)
      PROVE  requests' \in Seq(Request) /\ Kept
  <2>1. checked[w] \in Wish
    BY <1>2 DEF CreateRequest
  <2>2. Submitted("grant", checked[w], {}) \in Request
    BY <2>1, SubmittedType DEF Wish
  <2>3. QED
    BY <1>2, <2>2, AppendKeeps DEF CreateRequest
<1>3. ASSUME NEW i \in DOMAIN requests, NEW chosen \in SUBSET Records,
             SubmitRevoke(i, chosen)
      PROVE  requests' \in Seq(Request) /\ Kept
  <2>1. requests[i] \in Request
    OBVIOUS
  <2>2. PICK ids \in {{Offered(i, r) : r \in chosen},
                      {Id(seqs[k]) : k \in {m \in UNION {Of(i, r) : r \in chosen} :
                                               Active(seqs[m])}}} :
           requests' = Append(requests,
              Submitted("revoke", [requests[i] EXCEPT !.records = chosen], ids))
    BY <1>3 DEF SubmitRevoke
  <2>3. \A r \in chosen : Offered(i, r) \in Ids
    BY OfferedType
  <2>4. \A k \in DOMAIN seqs : Id(seqs[k]) \in Ids
    <3>1. \A k \in DOMAIN seqs : seqs[k] \in Sequence
      OBVIOUS
    <3>2. QED
      BY <3>1 DEF Id, Ids, Sequence
  <2>5. ids \in SUBSET Ids
    <3> HIDE DEF TypeOK
    <3> QED
      BY <2>2, <2>3, <2>4 DEF Of
  <2> DEFINE wish == [requests[i] EXCEPT !.records = chosen]
  <2>6. /\ wish.user \in Users /\ wish.party \in Parties \cup {Oneself}
        /\ wish.records \in (SUBSET Records) \ {{}}
    BY <1>3, <2>1 DEF SubmitRevoke, Request
  <2>7. Submitted("revoke", wish, ids) \in Request
    <3> HIDE DEF wish
    <3> QED
      BY <2>5, <2>6, SubmittedType
  <2>8. QED
    BY <2>2, <2>7, AppendKeeps
<1>4. ASSUME NEW i \in DOMAIN requests, NEW s \in Statuses, Review(i, s)
      PROVE  requests' \in Seq(Request) /\ Kept
  <2>1. requests[i] \in Request
    OBVIOUS
  <2>2. [requests[i] EXCEPT !.status = s] \in Request
    BY <2>1 DEF Request
  <2>3. requests' = [requests EXCEPT ![i] = [requests[i] EXCEPT !.status = s]]
    BY <1>4 DEF Review
  <2>4. QED
    BY <2>1, <2>2, <2>3, UpdateKeeps DEF Request
<1>5. ASSUME NEW i \in DOMAIN requests, NEW wanted \in (SUBSET Records) \ {{}},
             EditRequest(i, wanted)
      PROVE  requests' \in Seq(Request) /\ Kept
  <2>1. requests[i] \in Request
    OBVIOUS
  <2>2. [requests[i] EXCEPT !.records = wanted] \in Request
    BY <2>1 DEF Request
  <2>3. requests' = [requests EXCEPT ![i] = [requests[i] EXCEPT !.records = wanted]]
    BY <1>5 DEF EditRequest
  <2>4. QED
    BY <1>5, <2>1, <2>2, <2>3, UpdateKeeps DEF Request, EditRequest
<1>6. ASSUME NEW w \in Workers, NEW i \in DOMAIN requests, NEW s \in AdminStatuses,
             SetAdminStatus(w, i, s)
      PROVE  requests' \in Seq(Request) /\ Kept
  <2>1. requests[i] \in Request
    OBVIOUS
  <2>2. [requests[i] EXCEPT !.admin = s] \in Request
    BY <2>1 DEF Request
  <2>3. requests' = [requests EXCEPT ![i] = [requests[i] EXCEPT !.admin = s]]
    BY <1>6 DEF SetAdminStatus
  <2>4. QED
    BY <2>1, <2>2, <2>3, UpdateKeeps DEF Request
<1>7. ASSUME NEW w \in Workers, Handle(w)
      PROVE  requests' \in Seq(Request) /\ Kept
  <2>1. CASE UNCHANGED requests
    BY <1>1, <2>1
  <2>2. CASE \E i \in DOMAIN requests, s \in AdminStatuses : SetAdminStatus(w, i, s)
    BY <1>6, <2>2
  <2>3. QED
    BY <1>7, <2>1, <2>2
    DEF Handle, ListRequest, LookGrant, LookRevoke, LookMissing, RevokeSequence,
        AddUser, ReadNumber, CreateSequence, ExtendId, RemoveUser, Kill
<1>8. QED
  BY <1>1, <1>2, <1>3, <1>4, <1>5, <1>7
  DEF Next, CheckSubmission, EditAccessUsers

-----------------------------------------------------------------------------
(* Sequences.                                                              *)

\* The last order number of a grant bounds the numbers of its sequences.
LEMMA LastOrderBound ==
    ASSUME TypeOK, Linked, NEW i
    PROVE  /\ LastOrder(i) \in Nat
           /\ \A k \in DOMAIN seqs : seqs[k].grant = i => seqs[k].order <= LastOrder(i)
<1> DEFINE S == {0} \cup {seqs[k].order : k \in {m \in DOMAIN seqs : seqs[m].grant = i}}
<1>1. \A k \in DOMAIN seqs : seqs[k].order \in 0..MaxOrder
  <2>1. \A k \in DOMAIN seqs : seqs[k] \in Sequence
    BY DEF TypeOK
  <2>2. QED
    BY <2>1, BoundAssumption DEF Linked, Sequence
<1>2. S \in SUBSET (0..MaxOrder) /\ S # {}
  BY <1>1, BoundAssumption
<1>3. Max(S) \in S /\ \A y \in S : Max(S) >= y
  BY <1>2, MaxExists, BoundAssumption
<1>4. LastOrder(i) = Max(S)
  BY DEF LastOrder
<1>5. LastOrder(i) \in Nat
  BY <1>2, <1>3, <1>4, BoundAssumption
<1>6. ASSUME NEW k \in DOMAIN seqs, seqs[k].grant = i PROVE seqs[k].order \in S
  BY <1>6
<1>7. ASSUME NEW k \in DOMAIN seqs, seqs[k].grant = i
      PROVE  seqs[k].order <= LastOrder(i)
  <2> HIDE DEF S
  <2> QED
    BY <1>1, <1>3, <1>4, <1>5, <1>6, <1>7
<1>8. QED
  BY <1>5, <1>7

\* What a worker may do to the sequences: create one, or close one it may
\* revoke, in the first save or in the second.
Created(w) ==
    \E n \in Nat \ DOMAIN seqs :
        /\ DOMAIN seqs' = DOMAIN seqs \cup {n}
        /\ \A m \in DOMAIN seqs : seqs'[m] = seqs[m]
        /\ seqs'[n] = NewSequence(w)

Closed(w, k) ==
    /\ DOMAIN seqs' = DOMAIN seqs
    /\ \A m \in DOMAIN seqs : m # k => seqs'[m] = seqs[m]
    /\ seqs'[k].revoke = job[w].request

\* Saving one row.
LEMMA RowSet ==
    ASSUME seqs \in Seq(Sequence), NEW k \in DOMAIN seqs, NEW s \in Sequence,
           seqs' = [seqs EXCEPT ![k] = s]
    PROVE  /\ seqs' \in Seq(Sequence)
           /\ DOMAIN seqs' = DOMAIN seqs
           /\ \A m \in DOMAIN seqs : seqs'[m] = IF m = k THEN s ELSE seqs[m]
<1>1. DOMAIN seqs = 1..Len(seqs)
  BY LenProperties
<1>2. /\ seqs' \in Seq(Sequence)
      /\ Len(seqs') = Len(seqs)
      /\ \A m \in DOMAIN seqs : seqs'[m] = IF m = k THEN s ELSE seqs[m]
  BY <1>1, ExceptSeq
<1>3. QED
  BY <1>1, <1>2, LenProperties

\* A row saved by a revocation stays a sequence.
LEMMA RowSaved ==
    ASSUME TypeOK, NEW k \in DOMAIN seqs, NEW j \in Nat, NEW p \in Nat,
           seqs' = [seqs EXCEPT ![k].revoke = j, ![k].part = p]
    PROVE  /\ seqs' \in Seq(Sequence) /\ SeqsKept
           /\ DOMAIN seqs' = DOMAIN seqs
           /\ \A m \in DOMAIN seqs : m # k => seqs'[m] = seqs[m]
           /\ seqs'[k].revoke = j
<1> DEFINE s == [seqs[k] EXCEPT !.revoke = j, !.part = p]
<1>1. seqs \in Seq(Sequence) /\ seqs[k] \in Sequence
  BY DEF TypeOK
<1>2. /\ s \in Sequence /\ s.revoke = j
      /\ s.record = seqs[k].record /\ s.grant = seqs[k].grant
      /\ s.order = seqs[k].order
  BY <1>1 DEF Sequence
<1>3. seqs' = [seqs EXCEPT ![k] = s]
  OBVIOUS
<1> HIDE DEF s
<1>4. /\ seqs' \in Seq(Sequence)
      /\ DOMAIN seqs' = DOMAIN seqs
      /\ \A m \in DOMAIN seqs : seqs'[m] = IF m = k THEN s ELSE seqs[m]
  BY <1>1, <1>2, <1>3, RowSet
<1>5. QED
  BY <1>2, <1>4 DEF SeqsKept

\* A sequence is appended.
LEMMA RowCreated ==
    ASSUME TypeOK, JobsSound, NEW w \in Workers, At(w, "create"),
           seqs' = Append(seqs, NewSequence(w))
    PROVE  seqs' \in Seq(Sequence) /\ SeqsKept /\ Created(w)
<1>1. seqs \in Seq(Sequence)
  BY DEF TypeOK
<1>2. NewSequence(w) \in Sequence
  <2>1. job[w] \in Job
    BY DEF TypeOK, At
  <2>2. job[w].record \in Records
    BY DEF JobsSound, Sound, Placed, At
  <2>3. QED
    BY <2>1, <2>2 DEF NewSequence, Sequence, Job
<1> DEFINE n == Len(seqs) + 1
<1>3. /\ seqs' \in Seq(Sequence)
      /\ Len(seqs') = n
      /\ \A m \in 1..Len(seqs) : seqs'[m] = seqs[m]
      /\ seqs'[n] = NewSequence(w)
  BY <1>1, <1>2, AppendProperties
<1>4. DOMAIN seqs = 1..Len(seqs) /\ DOMAIN seqs' = 1..n /\ Len(seqs) \in Nat
  BY <1>1, <1>3, LenProperties
<1>5. n \in Nat \ DOMAIN seqs /\ DOMAIN seqs' = DOMAIN seqs \cup {n}
  BY <1>4
<1> HIDE DEF n
<1>6. SeqsKept
  BY <1>3, <1>4, <1>5 DEF SeqsKept
<1>7. Created(w)
  BY <1>3, <1>4, <1>5 DEF Created
<1>8. QED
  BY <1>3, <1>6, <1>7

\* What a step of a worker does to the sequences.
LEMMA SeqsStep ==
    ASSUME TypeOK, JobsSound, NEW w \in Workers, Handle(w)
    PROVE  /\ seqs' \in Seq(Sequence) /\ SeqsKept
           /\ \/ UNCHANGED seqs
              \/ CreateSequence(w) /\ At(w, "create") /\ Created(w)
              \/ \E k \in DOMAIN seqs :
                    /\ RevokeSequence(w, k) \/ ExtendId(w)
                    /\ job[w] # Nothing /\ job[w].step \in {"close", "extend"}
                    /\ k \in job[w].rows /\ Closed(w, k)
<1>1. CASE UNCHANGED seqs
  BY <1>1 DEF TypeOK, SeqsKept
<1>2. CASE CreateSequence(w)
  <2>1. At(w, "create")
    BY <1>2 DEF CreateSequence
  <2>2. CASE UNCHANGED seqs
    BY <1>1, <2>2
  <2>3. CASE seqs' = Append(seqs, NewSequence(w))
    BY <1>2, <2>1, <2>3, RowCreated
  <2>4. QED
    BY <1>2, <2>2, <2>3 DEF CreateSequence
<1>3. ASSUME job[w] # Nothing
      PROVE  job[w].request \in Nat /\ \A k \in job[w].rows : k \in DOMAIN seqs
  <2>1. job[w] \in Job
    BY <1>3 DEF TypeOK
  <2>2. QED
    BY <1>3, <2>1 DEF Job, JobsSound, Sound, Informed, MayRevoke
<1>4. ASSUME NEW k \in DOMAIN seqs, RevokeSequence(w, k)
      PROVE  /\ seqs' \in Seq(Sequence) /\ SeqsKept
             /\ UNCHANGED seqs \/ (k \in job[w].rows /\ Closed(w, k))
             /\ job[w] # Nothing /\ job[w].step \in {"close", "extend"}
  <2>1. job[w] # Nothing /\ job[w].step = "close" /\ k \in job[w].rows
    BY <1>4 DEF RevokeSequence, At
  <2>2. CASE UNCHANGED seqs
    BY <1>1, <2>1, <2>2 DEF TypeOK, SeqsKept
  <2>3. CASE seqs' = [seqs EXCEPT ![k].revoke = job[w].request, ![k].part = 0]
    BY <1>3, <2>1, <2>3, RowSaved DEF Closed
  <2>4. QED
    BY <1>4, <2>1, <2>2, <2>3 DEF RevokeSequence
<1>5. CASE ExtendId(w)
  <2> DEFINE k == job[w].row
  <2>1. job[w] # Nothing /\ job[w].step = "extend"
    BY <1>5 DEF ExtendId, At
  <2>2. k \in job[w].rows /\ k \in DOMAIN seqs
    BY <1>3, <2>1 DEF JobsSound, Sound, Informed
  <2>3. CASE UNCHANGED seqs
    BY <1>1, <2>3 DEF TypeOK, SeqsKept
  <2>4. CASE seqs' = [seqs EXCEPT ![k].revoke = job[w].request,
                                  ![k].part = job[w].request]
    <3>1. seqs' \in Seq(Sequence) /\ SeqsKept /\ Closed(w, k)
      BY <1>3, <2>1, <2>2, <2>4, RowSaved DEF Closed
    <3>2. QED
      BY <1>5, <2>1, <2>2, <3>1
  <2>5. QED
    BY <1>5, <2>3, <2>4 DEF ExtendId
<1>6. QED
  BY <1>1, <1>2, <1>4, <1>5
  DEF Handle, SetAdminStatus, ListRequest, LookGrant, LookRevoke, LookMissing,
      AddUser, ReadNumber, RemoveUser, Kill

-----------------------------------------------------------------------------
(* Jobs.                                                                   *)

\* A job that no one touches stays sound.
LEMMA SoundStays ==
    ASSUME TypeOK, Linked, Kept, SeqsKept, NEW j, Sound(j, requests, seqs)
    PROVE  Sound(j, requests', seqs')
<1>1. Placed(j, requests')
  BY DEF Sound, Placed, Kept
<1>2. ASSUME NEW k \in j.rows PROVE MayRevoke(j, k, requests', seqs')
  <2>1. MayRevoke(j, k, requests, seqs) /\ j.request \in DOMAIN requests
    BY <1>2 DEF Sound, Informed, Placed
  <2>2. k \in DOMAIN seqs /\ seqs[k].grant \in DOMAIN requests
    BY <2>1 DEF MayRevoke, Linked
  <2>3. Id(seqs'[k]) = Id(seqs[k])
    BY <2>2 DEF SeqsKept, Id
  <2>4. QED
    BY <2>1, <2>2, <2>3 DEF MayRevoke, Kept, SeqsKept
<1>3. QED
  BY <1>1, <1>2 DEF Sound, Informed

\* The loop over records that are left is a sound job.
LEMMA NewJobSound ==
    ASSUME NEW reqs, NEW rows, NEW task \in {"grant", "list", "revoke"},
           NEW i \in Nat, i \in DOMAIN reqs, NEW left \in SUBSET Records,
           reqs[i].kind = IF task = "revoke" THEN "revoke" ELSE "grant",
           task = "revoke" => left \subseteq reqs[i].records
    PROVE  /\ NewJob(task, i, left) \in Job \cup {Nothing}
           /\ NewJob(task, i, left) # Nothing => Sound(NewJob(task, i, left), reqs, rows)
BY DEF NewJob, Job, Sound, Placed, Informed

\* How a worker's job is set.
LEMMA JobSet ==
    ASSUME job \in [Workers -> Job \cup {Nothing}], NEW w \in Workers,
           NEW j \in Job \cup {Nothing}, job' = [job EXCEPT ![w] = j],
           j # Nothing => Sound(j, requests', seqs')
    PROVE  /\ job' \in [Workers -> Job \cup {Nothing}]
           /\ \A v \in Workers : v # w => job'[v] = job[v]
           /\ job'[w] # Nothing => Sound(job'[w], requests', seqs')
OBVIOUS

\* The effect of a worker's step on the jobs.
JobsStep(w) ==
    /\ job' \in [Workers -> Job \cup {Nothing}]
    /\ \A v \in Workers : v # w => job'[v] = job[v]
    /\ job'[w] # Nothing => Sound(job'[w], requests', seqs')

\* Going on with the loop keeps the jobs sound.
LEMMA LoopOn ==
    ASSUME TypeOK, Linked, JobsSound, Kept, SeqsKept,
           NEW w \in Workers, job[w] # Nothing, NEW left \in SUBSET job[w].left,
           job' = [job EXCEPT ![w] = NewJob(job[w].task, job[w].request, left)]
    PROVE  JobsStep(w)
<1>1. job[w] \in Job /\ job \in [Workers -> Job \cup {Nothing}]
  BY DEF TypeOK
<1>2. Sound(job[w], requests', seqs')
  BY SoundStays DEF JobsSound
<1>3. /\ job[w].task \in {"grant", "list", "revoke"} /\ job[w].request \in Nat
      /\ left \in SUBSET Records
  BY <1>1 DEF Job
<1>4. /\ job[w].request \in DOMAIN requests'
      /\ requests'[job[w].request].kind = IF job[w].task = "revoke" THEN "revoke" ELSE "grant"
      /\ job[w].task = "revoke" => left \subseteq requests'[job[w].request].records
  BY <1>2 DEF Sound, Placed
<1> DEFINE j == NewJob(job[w].task, job[w].request, left)
<1>5. j \in Job \cup {Nothing} /\ (j # Nothing => Sound(j, requests', seqs'))
  BY <1>3, <1>4, NewJobSound
<1>6. job' = [job EXCEPT ![w] = j]
  OBVIOUS
<1> HIDE DEF j
<1>7. QED
  BY <1>1, <1>5, <1>6, JobSet DEF JobsStep

\* Beginning with a record keeps them sound.
LEMMA Begins ==
    ASSUME TypeOK, Linked, JobsSound, Kept, SeqsKept,
           NEW w \in Workers, job[w] # Nothing, job[w].step = "next",
           NEW r \in job[w].left, NEW step, NEW rows \in SUBSET Nat,
           \/ step = "add" /\ job[w].task = "grant"
           \/ step = "number" /\ job[w].task = "list"
           \/ step \in {"close", "remove"} /\ job[w].task = "revoke",
           \A k \in rows :
              MayRevoke([job[w] EXCEPT !.record = r], k, requests, seqs),
           Begin(w, r, step, rows)
    PROVE  JobsStep(w)
<1> DEFINE j == [job[w] EXCEPT !.left = @ \ {r}, !.record = r,
                               !.step = step, !.rows = rows]
<1>1. job[w] \in Job /\ job \in [Workers -> Job \cup {Nothing}]
  BY DEF TypeOK
<1>2. Sound(job[w], requests, seqs)
  BY DEF JobsSound
<1>3. /\ j \in Job /\ j.request = job[w].request /\ j.task = job[w].task
      /\ j.left \subseteq job[w].left /\ j.record = r /\ j.step = step
      /\ j.rows = rows
  BY <1>1 DEF Job
<1>4. job' = [job EXCEPT ![w] = j]
  BY DEF Begin
<1>5. r \in Records
  BY <1>1 DEF Job
<1>6. \A k \in rows : MayRevoke(j, k, requests, seqs)
  <2> DEFINE q == [job[w] EXCEPT !.record = r]
  <2>1. q.record = r /\ q.request = job[w].request
    BY <1>1 DEF Job
  <2>2. \A k \in rows : MayRevoke(q, k, requests, seqs)
    OBVIOUS
  <2> HIDE DEF j, q
  <2>3. QED
    BY <1>3, <2>1, <2>2 DEF MayRevoke
<1> HIDE DEF j
<1>7. Sound(j, requests, seqs)
  BY <1>2, <1>3, <1>5, <1>6 DEF Sound, Placed, Informed
<1>8. Sound(j, requests', seqs')
  BY <1>7, SoundStays
<1>9. QED
  BY <1>1, <1>3, <1>4, <1>8, JobSet DEF JobsStep

\* Going to the next step with a job that differs in the step and in what it
\* has read only.
LEMMA GoesOn ==
    ASSUME TypeOK, Linked, JobsSound, Kept, SeqsKept,
           NEW w \in Workers, job[w] # Nothing,
           NEW j \in Job, job' = [job EXCEPT ![w] = j],
           j.task = job[w].task, j.request = job[w].request,
           j.left = job[w].left, j.record = job[w].record,
           j.rows \subseteq job[w].rows, job[w].step # "next",
           \/ j.step \in {"number", "create"} /\ job[w].step \in {"add", "number"}
           \/ /\ j.step \in {"close", "extend", "remove"}
              /\ job[w].step \in {"close", "extend"},
           j.step = "create" => j.number <= MaxOrder,
           j.step = "extend" => j.row \in j.rows
    PROVE  JobsStep(w)
<1>1. job[w] \in Job /\ job \in [Workers -> Job \cup {Nothing}]
  BY DEF TypeOK
<1>2. Sound(job[w], requests, seqs)
  BY DEF JobsSound
<1>3. Placed(j, requests)
  BY <1>2 DEF Sound, Placed
<1>4. Informed(j, requests, seqs)
  BY <1>2 DEF Sound, Informed, MayRevoke
<1>5. Sound(j, requests', seqs')
  BY <1>3, <1>4, SoundStays DEF Sound
<1>6. QED
  BY <1>1, <1>5, JobSet DEF JobsStep

\* Every step of a worker keeps the jobs sound.
LEMMA WorkerJobs ==
    ASSUME TypeOK, Linked, JobsSound, requests' \in Seq(Request), Kept, SeqsKept,
           NEW w \in Workers, Handle(w)
    PROVE  JobsStep(w)
<1>1. /\ job \in [Workers -> Job \cup {Nothing}]
      /\ job[w] # Nothing => job[w] \in Job
  BY DEF TypeOK
<1>2. CASE UNCHANGED job
  BY <1>1, <1>2, SoundStays DEF JobsStep, JobsSound
<1>3. CASE job' = [job EXCEPT ![w] = Nothing]
  BY <1>1, <1>3, JobSet DEF JobsStep
<1>4. ASSUME NEW i \in DOMAIN requests, NEW task \in {"grant", "list", "revoke"},
             NEW left \in SUBSET Records, left \subseteq requests[i].records,
             requests[i].kind = IF task = "revoke" THEN "revoke" ELSE "grant",
             job' = [job EXCEPT ![w] = NewJob(task, i, left)]
      PROVE  JobsStep(w)
  <2>1. i \in Nat /\ i \in DOMAIN requests'
    BY LenProperties DEF TypeOK, Kept
  <2>2. /\ requests'[i].kind = IF task = "revoke" THEN "revoke" ELSE "grant"
        /\ task = "revoke" => left \subseteq requests'[i].records
    BY <1>4 DEF Kept
  <2>3. /\ NewJob(task, i, left) \in Job \cup {Nothing}
        /\ NewJob(task, i, left) # Nothing
              => Sound(NewJob(task, i, left), requests', seqs')
    BY <2>1, <2>2, NewJobSound
  <2>4. QED
    BY <1>1, <1>4, <2>3, JobSet DEF JobsStep
<1>5. ASSUME NEW i \in DOMAIN requests, NEW s \in AdminStatuses, SetAdminStatus(w, i, s)
      PROVE  JobsStep(w)
  <2>1. /\ requests[i].kind \in {"grant", "revoke"}
        /\ requests[i].records \in SUBSET Records
    <3>1. requests[i] \in Request
      BY DEF TypeOK
    <3>2. QED
      BY <3>1 DEF Request
  <2>2. QED
    BY <1>2, <1>4, <1>5, <2>1 DEF SetAdminStatus
<1>6. ASSUME NEW i \in DOMAIN requests, ListRequest(w, i)
      PROVE  JobsStep(w)
  <2> DEFINE missing == {r \in requests[i].records : Of(i, r) = {}}
  <2>1. requests[i].records \in SUBSET Records
    <3>1. requests[i] \in Request
      BY DEF TypeOK
    <3>2. QED
      BY <3>1 DEF Request
  <2>2. missing \in SUBSET Records /\ missing \subseteq requests[i].records
    BY <2>1
  <2>3. requests[i].kind = "grant" /\ job' = [job EXCEPT ![w] = NewJob("list", i, missing)]
    BY <1>6 DEF ListRequest
  <2> HIDE DEF missing
  <2>4. QED
    BY <1>4, <2>2, <2>3
<1>7. ASSUME NEW r \in Records, Pass(w, r), job[w] # Nothing
      PROVE  JobsStep(w)
  <2>1. job[w].left \ {r} \in SUBSET job[w].left
    OBVIOUS
  <2>2. job' = [job EXCEPT ![w] = NewJob(job[w].task, job[w].request, job[w].left \ {r})]
    BY <1>7 DEF Pass
  <2>3. QED
    BY <1>7, <2>1, <2>2, LoopOn
<1>8. ASSUME Proceed(w), job[w] # Nothing
      PROVE  JobsStep(w)
  <2>1. job' = [job EXCEPT ![w] = NewJob(job[w].task, job[w].request, job[w].left)]
    BY <1>8 DEF Proceed
  <2>2. QED
    BY <1>8, <2>1, LoopOn
<1>9. ASSUME NEW r \in Records, LookGrant(w, r) \/ LookMissing(w, r)
      PROVE  JobsStep(w)
  <2>1. /\ job[w] # Nothing /\ job[w].step = "next" /\ r \in job[w].left
        /\ \/ Pass(w, r)
           \/ job[w].task = "grant" /\ Begin(w, r, "add", {})
           \/ job[w].task = "list" /\ Begin(w, r, "number", {})
    BY <1>9 DEF LookGrant, LookMissing, At, Does
  <2>2. ASSUME NEW step, Begin(w, r, step, {}),
               \/ step = "add" /\ job[w].task = "grant"
               \/ step = "number" /\ job[w].task = "list"
        PROVE  JobsStep(w)
    <3> DEFINE none == {}
    <3>1. none \in SUBSET Nat /\ Begin(w, r, step, none)
      BY <2>2
    <3>2. \A k \in none : MayRevoke([job[w] EXCEPT !.record = r], k, requests, seqs)
      OBVIOUS
    <3> HIDE DEF none
    <3>3. QED
      BY <2>1, <2>2, <3>1, <3>2, Begins
  <2>3. QED
    BY <1>7, <2>1, <2>2
<1>10. ASSUME NEW r \in Records, LookRevoke(w, r)
       PROVE  JobsStep(w)
  <2> DEFINE j == job[w].request
             rows == ToRevoke(j, r)
  <2>1. /\ job[w] # Nothing /\ job[w].step = "next" /\ job[w].task = "revoke"
        /\ r \in job[w].left
        /\ \/ Pass(w, r)
           \/ Begin(w, r, "remove", rows)
           \/ Begin(w, r, "close", rows)
    BY <1>10 DEF LookRevoke, At, Does
  <2>2. rows \in SUBSET Nat
    BY LenProperties DEF TypeOK, ToRevoke
  <2>3. ASSUME NEW k \in rows
        PROVE  MayRevoke([job[w] EXCEPT !.record = r], k, requests, seqs)
    <3>1. /\ [job[w] EXCEPT !.record = r].record = r
          /\ [job[w] EXCEPT !.record = r].request = j
      BY <1>1, <2>1 DEF Job
    <3>2. QED
      BY <3>1 DEF MayRevoke, ToRevoke, GrantsFor
  <2>4. ASSUME NEW step \in {"close", "remove"}, Begin(w, r, step, rows)
        PROVE  JobsStep(w)
    <3> HIDE DEF rows
    <3> QED
      BY <2>1, <2>2, <2>3, <2>4, Begins
  <2>5. QED
    BY <1>7, <2>1, <2>4
<1>11. CASE AddUser(w)
  <2> DEFINE j == [job[w] EXCEPT !.step = "number"]
  <2>1. job[w] # Nothing /\ job[w].step = "add" /\ job' = [job EXCEPT ![w] = j]
    BY <1>11 DEF AddUser, At, Goto
  <2>2. /\ j \in Job /\ j.task = job[w].task /\ j.request = job[w].request
        /\ j.left = job[w].left /\ j.record = job[w].record
        /\ j.rows = job[w].rows /\ j.step = "number"
    BY <1>1, <2>1 DEF Job
  <2> HIDE DEF j
  <2>3. QED
    BY <2>1, <2>2, GoesOn
<1>12. CASE ReadNumber(w)
  <2> DEFINE number == LastOrder(job[w].request) + 1
             j == [job[w] EXCEPT !.step = "create", !.number = number]
  <2>1. /\ job[w] # Nothing /\ job[w].step = "number" /\ job' = [job EXCEPT ![w] = j]
        /\ LastOrder(job[w].request) < MaxOrder
    BY <1>12 DEF ReadNumber, At
  <2>2. number \in Nat /\ number <= MaxOrder
    BY <2>1, LastOrderBound, BoundAssumption
  <2> HIDE DEF number
  <2>3. /\ j \in Job /\ j.task = job[w].task /\ j.request = job[w].request
        /\ j.left = job[w].left /\ j.record = job[w].record
        /\ j.rows = job[w].rows /\ j.step = "create" /\ j.number = number
    BY <1>1, <2>1, <2>2 DEF Job
  <2> HIDE DEF j
  <2>4. QED
    BY <2>1, <2>2, <2>3, GoesOn
<1>13. ASSUME NEW k \in DOMAIN seqs, RevokeSequence(w, k)
       PROVE  JobsStep(w)
  <2> DEFINE j == [job[w] EXCEPT !.step = "extend", !.row = k]
  <2>1. /\ job[w] # Nothing /\ job[w].step = "close" /\ k \in job[w].rows
        /\ job' = [job EXCEPT ![w] = j] \/ job' = [job EXCEPT ![w] = Nothing]
    BY <1>13 DEF RevokeSequence, At
  <2>2. k \in Nat
    BY <1>1, <2>1 DEF Job
  <2>3. /\ j \in Job /\ j.task = job[w].task /\ j.request = job[w].request
        /\ j.left = job[w].left /\ j.record = job[w].record
        /\ j.rows = job[w].rows /\ j.step = "extend" /\ j.row = k
    BY <1>1, <2>1, <2>2 DEF Job
  <2> HIDE DEF j
  <2>4. QED
    BY <1>3, <2>1, <2>3, GoesOn
<1>14. CASE ExtendId(w)
  <2> DEFINE rows == job[w].rows \ {job[w].row}
             step == IF rows = {} THEN "remove" ELSE "close"
             j == [job[w] EXCEPT !.step = step, !.rows = rows, !.row = 0]
  <2>1. job[w] # Nothing /\ job[w].step = "extend" /\ job' = [job EXCEPT ![w] = j]
    BY <1>14 DEF ExtendId, At
  <2>2. step \in {"remove", "close"} /\ rows \subseteq job[w].rows
    OBVIOUS
  <2> HIDE DEF step, rows
  <2>3. /\ j \in Job /\ j.task = job[w].task /\ j.request = job[w].request
        /\ j.left = job[w].left /\ j.record = job[w].record
        /\ j.rows = rows /\ j.step = step
    BY <1>1, <2>1, <2>2 DEF Job
  <2> HIDE DEF j
  <2>4. QED
    BY <2>1, <2>2, <2>3, GoesOn
<1>15. CASE CreateSequence(w) \/ RemoveUser(w)
  BY <1>8, <1>15 DEF CreateSequence, RemoveUser, At
<1>16. CASE Kill(w)
  BY <1>3, <1>16 DEF Kill
<1>17. QED
  BY <1>5, <1>6, <1>9, <1>10, <1>11, <1>12, <1>13, <1>14, <1>15, <1>16 DEF Handle

-----------------------------------------------------------------------------
(* The types.                                                              *)

\* A pair of a user and a record.
LEMMA PairType ==
    ASSUME TypeOK, JobsSound, NEW w \in Workers, job[w] # Nothing, job[w].step # "next"
    PROVE  UserOf(w) \in Users /\ job[w].record \in Records
           /\ Pair(w) \in Users \X Records
<1>1. job[w].request \in DOMAIN requests /\ job[w].record \in Records
  BY DEF JobsSound, Sound, Placed
<1>2. requests[job[w].request] \in Request
  BY <1>1 DEF TypeOK
<1>3. UserOf(w) \in Users
  BY <1>2 DEF UserOf, Request
<1>4. QED
  BY <1>1, <1>3 DEF Pair

\* What is left without a trace is an access.
LEMMA LeftType ==
    ASSUME TypeOK, NEW w \in Workers
    PROVE  /\ LeftUntraced(w) \in SUBSET (Users \X Records)
<1>1. ASSUME NEW p \in LeftUntraced(w) PROVE p \in Users \X Records
  <2>1. /\ p = <<UserOf(w), job[w].record>> /\ job[w].record \in Records
        /\ p[1] \in access[p[2]]
    BY <1>1 DEF LeftUntraced, Pair
  <2>2. UserOf(w) \in access[job[w].record]
    BY <2>1
  <2>3. UserOf(w) \in Users
    BY <2>1, <2>2 DEF TypeOK
  <2>4. QED
    BY <2>1, <2>3
<1>2. QED
  BY <1>1

\* Every step of a worker keeps the types.
LEMMA WorkerTypes ==
    ASSUME TypeOK, Linked, JobsSound, requests' \in Seq(Request), Kept,
           NEW w \in Workers, Handle(w)
    PROVE  TypeOK'
<1>1. seqs' \in Seq(Sequence) /\ SeqsKept
  BY SeqsStep
<1>2. job' \in [Workers -> Job \cup {Nothing}]
  BY <1>1, WorkerJobs DEF JobsStep
<1>3. UNCHANGED checked
  BY DEF Handle, SetAdminStatus, ListRequest, LookGrant, LookRevoke, LookMissing,
         RevokeSequence, AddUser, ReadNumber, CreateSequence, ExtendId, RemoveUser, Kill
<1>4. kills' \in 0..MaxKills
  <2>1. kills' = kills \/ (kills < MaxKills /\ kills' = kills + 1)
    BY DEF Handle, SetAdminStatus, ListRequest, LookGrant, LookRevoke, LookMissing,
        RevokeSequence, AddUser, ReadNumber, CreateSequence, ExtendId, RemoveUser, Kill
  <2>2. kills \in 0..MaxKills
    BY DEF TypeOK
  <2>3. QED
    BY <2>1, <2>2, BoundAssumption
<1>5. raced' \in BOOLEAN
  <2>1. UNCHANGED raced \/ ReadNumber(w)
    BY DEF ghosts, Handle, SetAdminStatus, ListRequest, LookGrant, LookRevoke, LookMissing,
        RevokeSequence, AddUser, CreateSequence, ExtendId, RemoveUser, Kill
  <2>2. QED
    BY <2>1 DEF TypeOK, ReadNumber
<1>6. access' \in [Records -> SUBSET Users]
  <2>1. CASE UNCHANGED access
    BY <2>1 DEF TypeOK
  <2>2. CASE AddUser(w) \/ RemoveUser(w)
    <3>1. UserOf(w) \in Users /\ job[w].record \in Records
      BY <2>2, PairType DEF AddUser, RemoveUser, At
    <3>2. QED
      BY <2>2, <3>1 DEF AddUser, RemoveUser, TypeOK
  <2>3. QED
    BY <2>1, <2>2
    DEF Handle, SetAdminStatus, ListRequest, LookGrant, LookRevoke, LookMissing,
        RevokeSequence, ReadNumber, CreateSequence, ExtendId, Kill
<1>7. byHand' \in SUBSET (Users \X Records) /\ cut' \in SUBSET (Users \X Records)
  <2>1. /\ byHand' \subseteq byHand
        /\ cut' \subseteq cut \cup LeftUntraced(w)
    BY DEF ghosts, Handle, SetAdminStatus, ListRequest, LookGrant, LookRevoke, LookMissing,
        RevokeSequence, AddUser, ReadNumber, CreateSequence, ExtendId, RemoveUser, Kill
  <2>2. QED
    BY <2>1, LeftType DEF TypeOK
<1>8. QED
  BY <1>1, <1>2, <1>3, <1>4, <1>5, <1>6, <1>7 DEF TypeOK

-----------------------------------------------------------------------------
(* Links and ids.                                                          *)

\* Steps that keep the sequences as they are keep their links.
LEMMA LinksStay ==
    ASSUME TypeOK, Linked, OnlyNamedRevoked, Kept, UNCHANGED seqs
    PROVE  Linked' /\ OnlyNamedRevoked'
<1>1. Linked'
  BY DEF Linked, Kept
<1>2. OnlyNamedRevoked'
  BY DEF Linked, Kept, OnlyNamedRevoked, Active, Id
<1>3. QED
  BY <1>1, <1>2

\* So do the steps of a worker, who closes what it may revoke only.
LEMMA WorkerLinks ==
    ASSUME TypeOK, Linked, JobsSound, OnlyNamedRevoked, Kept,
           NEW w \in Workers, Handle(w)
    PROVE  Linked' /\ OnlyNamedRevoked'
<1>1. CASE UNCHANGED seqs
  BY <1>1, LinksStay
<1>2. CASE At(w, "create") /\ Created(w)
  <2>1. PICK n \in Nat \ DOMAIN seqs :
           /\ DOMAIN seqs' = DOMAIN seqs \cup {n}
           /\ \A m \in DOMAIN seqs : seqs'[m] = seqs[m]
           /\ seqs'[n] = NewSequence(w)
    BY <1>2 DEF Created
  <2>2. /\ job[w].request \in DOMAIN requests
        /\ job[w].number <= MaxOrder
    BY <1>2 DEF JobsSound, Sound, Placed, Informed, At
  <2>3. /\ seqs'[n].grant = job[w].request /\ seqs'[n].order = job[w].number
        /\ seqs'[n].revoke = 0
    BY <2>1 DEF NewSequence
  <2>4. Linked'
    BY <2>1, <2>2, <2>3 DEF Linked, Kept
  <2>5. OnlyNamedRevoked'
    BY <2>1, <2>3 DEF OnlyNamedRevoked, Active, Linked, Kept, Id
  <2>6. QED
    BY <2>4, <2>5
<1>3. ASSUME NEW k \in DOMAIN seqs, SeqsKept, job[w] # Nothing,
             job[w].step \in {"close", "extend"}, k \in job[w].rows, Closed(w, k)
      PROVE  Linked' /\ OnlyNamedRevoked'
  <2>1. /\ job[w].request \in DOMAIN requests
        /\ requests[job[w].request].kind = "revoke"
        /\ job[w].record \in requests[job[w].request].records
        /\ MayRevoke(job[w], k, requests, seqs)
    BY <1>3 DEF JobsSound, Sound, Placed, Informed
  <2>2. DOMAIN seqs' = DOMAIN seqs /\ seqs'[k].revoke = job[w].request
    BY <1>3 DEF Closed
  <2>3. \A m \in DOMAIN seqs : m # k => seqs'[m] = seqs[m]
    BY <1>3 DEF Closed
  <2>4. Linked'
    BY <1>3, <2>1, <2>2, <2>3 DEF Linked, Kept, SeqsKept
  <2>5. Id(seqs'[k]) = Id(seqs[k])
    BY <1>3 DEF Id, SeqsKept
  <2>6. ASSUME NEW m \in DOMAIN seqs, ~Active(seqs'[m])
        PROVE  /\ requests'[seqs'[m].revoke].user = requests'[seqs'[m].grant].user
               /\ seqs'[m].record \in requests'[seqs'[m].revoke].records
               /\ \/ requests'[seqs'[m].revoke].ids = {}
                  \/ Id(seqs'[m]) \in requests'[seqs'[m].revoke].ids
    <3>1. CASE m = k
      BY <1>3, <2>1, <2>2, <2>5, <3>1 DEF MayRevoke, Linked, Kept, SeqsKept
    <3>2. CASE m # k
      BY <2>3, <2>6, <3>2 DEF OnlyNamedRevoked, Active, Linked, Kept
    <3>3. QED
      BY <3>1, <3>2
  <2>7. OnlyNamedRevoked'
    BY <2>2, <2>6 DEF OnlyNamedRevoked
  <2>8. QED
    BY <2>4, <2>7
<1>4. QED
  BY <1>1, <1>2, <1>3, SeqsStep

-----------------------------------------------------------------------------
(* Numbers.                                                                *)

\* A worker comes to the creation of a sequence by reading a number.
LEMMA ReadsFirst ==
    ASSUME TypeOK, NEW w \in Workers, Handle(w), At(w, "create")'
    PROVE  ReadNumber(w)
<1>1. /\ job \in [Workers -> Job \cup {Nothing}]
      /\ job[w] # Nothing => job[w] \in Job
      /\ job'[w] # Nothing /\ job'[w].step = "create"
  BY DEF TypeOK, At
<1>2. ASSUME NEW task, NEW i, NEW left, job'[w] = NewJob(task, i, left)
      PROVE  FALSE
  BY <1>1, <1>2 DEF NewJob
<1>3. ASSUME NEW i, NEW s, SetAdminStatus(w, i, s) PROVE FALSE
  <2>1. job[w] = Nothing
    BY <1>3 DEF SetAdminStatus
  <2>2. CASE job' = job
    BY <1>1, <2>1, <2>2
  <2>3. CASE job' = [job EXCEPT ![w] =
                        NewJob(requests[i].kind, i, requests[i].records)]
    BY <1>1, <1>2, <2>3
  <2>4. QED
    BY <1>3, <2>2, <2>3 DEF SetAdminStatus
<1>4. ASSUME NEW i, ListRequest(w, i) PROVE FALSE
  <2> DEFINE missing == {r \in requests[i].records : Of(i, r) = {}}
  <2>1. job' = [job EXCEPT ![w] = NewJob("list", i, missing)]
    BY <1>4 DEF ListRequest
  <2> HIDE DEF missing
  <2>2. QED
    BY <1>1, <1>2, <2>1
<1>5. ~\E r \in Records : LookGrant(w, r) \/ LookRevoke(w, r) \/ LookMissing(w, r)
  <2>1. ASSUME NEW r, NEW step \in {"add", "number", "close", "remove"}, NEW rows,
               job[w] # Nothing, Begin(w, r, step, rows)
        PROVE  FALSE
    BY <1>1, <2>1 DEF Begin, Job
  <2>2. ASSUME NEW r, Pass(w, r) PROVE FALSE
    BY <1>1, <1>2, <2>2 DEF Pass
  <2>3. QED
    BY <2>1, <2>2 DEF LookGrant, LookRevoke, LookMissing, At
<1>6. ~Proceed(w)
  BY <1>1, <1>2 DEF Proceed
<1>7. ~CreateSequence(w) /\ ~RemoveUser(w) /\ ~Kill(w)
  BY <1>1, <1>6 DEF CreateSequence, RemoveUser, Kill
<1>8. ~AddUser(w)
  BY <1>1 DEF AddUser, At, Goto, Job
<1>9. ~\E k \in DOMAIN seqs : RevokeSequence(w, k)
  BY <1>1 DEF RevokeSequence, At, Job
<1>10. ~ExtendId(w)
  <2> SUFFICES ASSUME ExtendId(w) PROVE FALSE
    OBVIOUS
  <2> DEFINE rows == job[w].rows \ {job[w].row}
             step == IF rows = {} THEN "remove" ELSE "close"
  <2>1. job[w] # Nothing /\ step # "create"
    BY DEF ExtendId, At
  <2>2. job' = [job EXCEPT ![w] = [@ EXCEPT !.step = step, !.rows = rows, !.row = 0]]
    BY DEF ExtendId
  <2> HIDE DEF rows, step
  <2>3. QED
    BY <1>1, <2>1, <2>2 DEF Job
<1>11. QED
  BY <1>3, <1>4, <1>5, <1>7, <1>8, <1>9, <1>10 DEF Handle

\* Numbers stay fresh and ids distinct.
LEMMA WorkerNumbers ==
    ASSUME TypeOK, Linked, JobsSound, NumbersFresh, IdsDistinct,
           requests' \in Seq(Request), Kept, NEW w \in Workers, Handle(w)
    PROVE  NumbersFresh' /\ IdsDistinct'
<1>1. SUFFICES ASSUME ~raced' PROVE NumbersFresh' /\ IdsDistinct'
  BY DEF NumbersFresh, IdsDistinct
<1>2. ~raced
  <2>1. UNCHANGED raced \/ ReadNumber(w)
    BY DEF ghosts, Handle, SetAdminStatus, ListRequest, LookGrant, LookRevoke, LookMissing,
        RevokeSequence, AddUser, CreateSequence, ExtendId, RemoveUser, Kill
  <2>2. QED
    BY <1>1, <2>1 DEF ReadNumber
<1>3. SeqsKept /\ \A v \in Workers : v # w => job'[v] = job[v]
  BY SeqsStep, WorkerJobs DEF JobsStep
<1>4. ASSUME At(w, "create")
      PROVE  /\ \A k \in DOMAIN seqs :
                   seqs[k].grant = job[w].request => seqs[k].order < job[w].number
             /\ \A v \in Workers :
                   v # w /\ At(v, "create") => job[v].request # job[w].request
             /\ NewSequence(w).grant = job[w].request
             /\ NewSequence(w).order = job[w].number
             /\ job[w].number \in Nat
  <2>1. job[w] \in Job
    BY <1>4 DEF TypeOK, At
  <2>2. QED
    BY <1>2, <1>4, <2>1 DEF NumbersFresh, NewSequence, Job
<1>5. \A k \in DOMAIN seqs : seqs[k].order \in Nat
  <2>1. \A k \in DOMAIN seqs : seqs[k] \in Sequence
    BY DEF TypeOK
  <2>2. QED
    BY <2>1 DEF Sequence
\* Every sequence is an old one, or the one w had a number for.
<1>6. ASSUME NEW k \in DOMAIN seqs'
      PROVE  \/ k \in DOMAIN seqs /\ seqs'[k].grant = seqs[k].grant
                                  /\ seqs'[k].order = seqs[k].order
             \/ /\ At(w, "create") /\ DOMAIN seqs' = DOMAIN seqs \cup {k}
                /\ seqs'[k] = NewSequence(w)
  BY <1>3, SeqsStep DEF SeqsKept, Created, Closed
<1>7. ASSUME NEW k \in DOMAIN seqs', NEW m \in DOMAIN seqs',
             seqs'[k].grant = seqs'[m].grant, seqs'[k].order = seqs'[m].order
      PROVE  k = m
  <2>1. CASE k \in DOMAIN seqs /\ m \in DOMAIN seqs
    BY <1>2, <1>3, <1>7, <2>1 DEF IdsDistinct, SeqsKept
  <2>2. ASSUME NEW a \in DOMAIN seqs, NEW b \in DOMAIN seqs', b \notin DOMAIN seqs,
               seqs'[a].grant = seqs'[b].grant, seqs'[a].order = seqs'[b].order
        PROVE  FALSE
    <3>1. At(w, "create") /\ seqs'[b] = NewSequence(w)
      BY <1>6, <2>2
    <3>2. seqs[a].order < job[w].number /\ seqs[a].order = job[w].number
      BY <1>3, <1>4, <2>2, <3>1 DEF SeqsKept
    <3>3. QED
      BY <1>4, <1>5, <3>1, <3>2
  <2>3. CASE k \notin DOMAIN seqs /\ m \notin DOMAIN seqs
    BY <1>6, <2>3
  <2>4. QED
    BY <1>7, <2>1, <2>2, <2>3
<1>8. IdsDistinct'
  BY <1>7 DEF IdsDistinct
<1>9. ASSUME At(w, "create")'
      PROVE  /\ UNCHANGED seqs
             /\ \A k \in DOMAIN seqs :
                   seqs[k].grant = job'[w].request => seqs[k].order < job'[w].number
             /\ \A v \in Workers :
                   v # w /\ At(v, "create") => job[v].request # job'[w].request
  <2>1. ReadNumber(w)
    BY <1>9, ReadsFirst
  <2> DEFINE i == job[w].request
             n == LastOrder(i) + 1
  <2>2. /\ job[w] # Nothing /\ UNCHANGED seqs
        /\ job' = [job EXCEPT ![w] = [@ EXCEPT !.step = "create", !.number = n]]
    BY <2>1 DEF ReadNumber, At
  <2>3. LastOrder(i) \in Nat /\ \A k \in DOMAIN seqs :
                                   seqs[k].grant = i => seqs[k].order <= LastOrder(i)
    BY LastOrderBound
  <2>4. \A k \in DOMAIN seqs : seqs[k].grant = i => seqs[k].order < n
    BY <1>5, <2>3
  <2>5. \A v \in Workers : v # w /\ At(v, "create") => job[v].request # i
    BY <1>1, <2>1 DEF ReadNumber
  <2> HIDE DEF n
  <2>6. job'[w].request = i /\ job'[w].number = n
    BY <2>2 DEF TypeOK, Job
  <2>7. QED
    BY <2>2, <2>4, <2>5, <2>6
<1>10. ASSUME NEW v \in Workers, At(v, "create")'
       PROVE  /\ \A k \in DOMAIN seqs' :
                    seqs'[k].grant = job'[v].request => seqs'[k].order < job'[v].number
              /\ \A u \in Workers :
                    u # v /\ At(u, "create")' => job'[u].request # job'[v].request
  <2>1. CASE v = w
    BY <1>3, <1>9, <1>10, <2>1 DEF At
  <2>2. CASE v # w
    <3>1. job'[v] = job[v] /\ At(v, "create")
      BY <1>3, <1>10, <2>2 DEF At
    <3>2. /\ \A k \in DOMAIN seqs :
                seqs[k].grant = job[v].request => seqs[k].order < job[v].number
          /\ \A u \in Workers :
                u # v /\ At(u, "create") => job[u].request # job[v].request
      BY <1>2, <3>1 DEF NumbersFresh
    <3>3. ASSUME NEW k \in DOMAIN seqs', seqs'[k].grant = job[v].request
          PROVE  seqs'[k].order < job[v].number
      BY <1>4, <1>6, <2>2, <3>1, <3>2, <3>3
    <3>4. ASSUME NEW u \in Workers, u # v, At(u, "create")'
          PROVE  job'[u].request # job[v].request
      <4>1. CASE u = w
        BY <1>9, <2>2, <3>1, <3>4, <4>1
      <4>2. CASE u # w
        BY <1>3, <3>2, <3>4, <4>2 DEF At
      <4>3. QED
        BY <4>1, <4>2
    <3>5. QED
      BY <3>1, <3>3, <3>4
  <2>3. QED
    BY <2>1, <2>2
<1>11. NumbersFresh'
  BY <1>10 DEF NumbersFresh
<1>12. QED
  BY <1>8, <1>11

-----------------------------------------------------------------------------
(* Access is behind a sequence.                                            *)

Covered(u, r) ==
    \/ <<u, r>> \in byHand \cup cut
    \/ Traced(u, r)
    \/ \E w \in Workers : InBetween(w) /\ <<u, r>> = Pair(w)

\* A trace stays while its sequences stay active.
LEMMA TraceStays ==
    ASSUME Linked, Kept, SeqsKept, NEW u, NEW r, NEW k \in DOMAIN seqs,
           seqs[k].record = r, requests[seqs[k].grant].user = u,
           Active(seqs'[k])
    PROVE  Traced(u, r)'
BY DEF Linked, Kept, SeqsKept, Traced

\* A job in between stays there while its step does.
LEMMA BetweenStays ==
    ASSUME Kept, JobsSound, NEW v \in Workers, job[v] # Nothing, job'[v] # Nothing,
           job'[v].request = job[v].request, job'[v].record = job[v].record,
           \/ job'[v].task = "grant" /\ job'[v].step \in {"number", "create"}
           \/ job'[v].step \in {"close", "extend", "remove"}
    PROVE  InBetween(v)' /\ Pair(v)' = Pair(v)
<1>1. job[v].request \in DOMAIN requests
  BY DEF JobsSound, Sound, Placed
<1>2. UserOf(v)' = UserOf(v)
  BY <1>1 DEF Kept, UserOf
<1>3. InBetween(v)'
  BY DEF InBetween, At, Does
<1>4. QED
  BY <1>2, <1>3 DEF Pair

\* Steps that leave the sequences, the access and the jobs alone.
LEMMA CoverStays ==
    ASSUME Linked, Kept, JobsSound, UNCHANGED <<seqs, job, byHand, cut>>,
           NEW u, NEW r, Covered(u, r)
    PROVE  Covered(u, r)'
<1>1. CASE <<u, r>> \in byHand \cup cut
  BY <1>1 DEF Covered
<1>2. CASE Traced(u, r)
  BY <1>2, TraceStays DEF Traced, Covered, SeqsKept
<1>3. ASSUME NEW w \in Workers, InBetween(w), <<u, r>> = Pair(w)
      PROVE  Covered(u, r)'
  <2>1. /\ job[w] # Nothing
        /\ \/ job[w].task = "grant" /\ job[w].step \in {"number", "create"}
           \/ job[w].step \in {"close", "extend", "remove"}
    BY <1>3 DEF InBetween, At, Does
  <2>2. InBetween(w)' /\ Pair(w)' = Pair(w)
    BY <2>1, BetweenStays
  <2>3. QED
    BY <1>3, <2>2 DEF Covered
<1>4. QED
  BY <1>1, <1>2, <1>3 DEF Covered

\* A worker that creates the sequence leaves a trace.
LEMMA CreatedTraced ==
    ASSUME JobsSound, Kept, NEW w \in Workers, At(w, "create"), Created(w),
           NEW u, NEW r, <<u, r>> = Pair(w)
    PROVE  Traced(u, r)'
<1>1. job[w].request \in DOMAIN requests
  BY DEF JobsSound, Sound, Placed, At
<1>2. PICK n \in Nat \ DOMAIN seqs :
         DOMAIN seqs' = DOMAIN seqs \cup {n} /\ seqs'[n] = NewSequence(w)
  BY DEF Created
<1>3. /\ Active(seqs'[n]) /\ seqs'[n].record = job[w].record
      /\ seqs'[n].grant = job[w].request
  BY <1>2 DEF NewSequence, Active
<1>4. u = requests[job[w].request].user /\ r = job[w].record
  BY DEF Pair, UserOf
<1>5. QED
  BY <1>1, <1>2, <1>3, <1>4 DEF Traced, Kept

\* What happens to the access w is at, by the step w takes.
LEMMA OwnPair ==
    ASSUME TypeOK, Linked, JobsSound, Kept, NEW w \in Workers, Handle(w),
           InBetween(w), NEW u, NEW r, <<u, r>> = Pair(w), u \in access[r]
    PROVE  \/ InBetween(w)' /\ <<u, r>> = Pair(w)'
           \/ Traced(u, r)' \/ (Traced(u, r) /\ UNCHANGED seqs)
           \/ <<u, r>> \in cut' \/ u \notin access'[r]
<1>1. /\ job \in [Workers -> Job \cup {Nothing}] /\ job[w] # Nothing
      /\ job[w] \in Job
      /\ \/ job[w].task = "grant" /\ job[w].step \in {"number", "create"}
         \/ job[w].step \in {"close", "extend", "remove"}
  BY DEF TypeOK, InBetween, At, Does
<1>2. job[w].record \in Records /\ UserOf(w) \in Users
  BY <1>1, PairType
<1>3. u = UserOf(w) /\ r = job[w].record
  BY DEF Pair
<1>4. CASE UNCHANGED seqs /\ cut' = cut \cup LeftUntraced(w)
  <2>1. CASE Traced(u, r)
    BY <1>4, <2>1
  <2>2. CASE ~Traced(u, r)
    <3>1. Pair(w)[1] = u /\ Pair(w)[2] = r
      BY <1>3 DEF Pair
    <3>2. Pair(w) \in LeftUntraced(w)
      BY <1>2, <2>2, <3>1 DEF LeftUntraced
    <3>3. QED
      BY <1>4, <3>2
  <2>3. QED
    BY <2>1, <2>2
<1>5. ASSUME NEW j \in Job, job' = [job EXCEPT ![w] = j],
             j.task = job[w].task, j.request = job[w].request,
             j.record = job[w].record,
             \/ j.step = "create" /\ job[w].step = "number"
             \/ j.step \in {"close", "extend", "remove"}
      PROVE  InBetween(w)' /\ <<u, r>> = Pair(w)'
  <2>1. job'[w] = j /\ j # Nothing
    BY <1>1, <1>5, OneselfAssumption
  <2>2. \/ j.task = "grant" /\ j.step \in {"number", "create"}
        \/ j.step \in {"close", "extend", "remove"}
    BY <1>1, <1>5
  <2>3. InBetween(w)' /\ Pair(w)' = Pair(w)
    BY <1>1, <1>5, <2>1, <2>2, BetweenStays
  <2>4. QED
    BY <2>3
<1>6. CASE ReadNumber(w)
  <2> DEFINE number == LastOrder(job[w].request) + 1
             j == [job[w] EXCEPT !.step = "create", !.number = number]
  <2>1. job[w].step = "number" /\ job' = [job EXCEPT ![w] = j] /\ number \in Nat
    BY <1>6, LastOrderBound DEF ReadNumber, At
  <2> HIDE DEF number
  <2>2. /\ j \in Job /\ j.task = job[w].task /\ j.request = job[w].request
        /\ j.record = job[w].record /\ j.step = "create"
    BY <1>1, <2>1 DEF Job
  <2> HIDE DEF j
  <2>3. QED
    BY <1>5, <2>1, <2>2
<1>7. CASE CreateSequence(w)
  <2>1. At(w, "create")
    BY <1>7 DEF CreateSequence
  <2>2. CASE UNCHANGED seqs /\ cut' = cut \cup LeftUntraced(w)
    BY <1>4, <2>2
  <2>3. CASE seqs' = Append(seqs, NewSequence(w))
    BY <2>1, <2>3, RowCreated, CreatedTraced
  <2>4. QED
    BY <1>7, <2>2, <2>3 DEF CreateSequence
<1>8. ASSUME NEW k \in DOMAIN seqs, RevokeSequence(w, k)
      PROVE  \/ InBetween(w)' /\ <<u, r>> = Pair(w)'
             \/ UNCHANGED seqs /\ cut' = cut \cup LeftUntraced(w)
  <2> DEFINE j == [job[w] EXCEPT !.step = "extend", !.row = k]
  <2>1. \/ job' = [job EXCEPT ![w] = j]
        \/ UNCHANGED seqs /\ cut' = cut \cup LeftUntraced(w)
    BY <1>8 DEF RevokeSequence
  <2>2. k \in Nat
    BY LenProperties DEF TypeOK
  <2>3. /\ j \in Job /\ j.task = job[w].task /\ j.request = job[w].request
        /\ j.record = job[w].record /\ j.step = "extend"
    BY <1>1, <2>2 DEF Job
  <2> HIDE DEF j
  <2>4. QED
    BY <1>5, <2>1, <2>3
<1>9. CASE ExtendId(w)
  <2> DEFINE rows == job[w].rows \ {job[w].row}
             step == IF rows = {} THEN "remove" ELSE "close"
             j == [job[w] EXCEPT !.step = step, !.rows = rows, !.row = 0]
  <2>1. job' = [job EXCEPT ![w] = j]
    BY <1>9 DEF ExtendId
  <2>2. step \in {"remove", "close"} /\ rows \subseteq job[w].rows
    OBVIOUS
  <2> HIDE DEF step, rows
  <2>3. /\ j \in Job /\ j.task = job[w].task /\ j.request = job[w].request
        /\ j.record = job[w].record /\ j.step = step
    BY <1>1, <2>2 DEF Job
  <2> HIDE DEF j
  <2>4. QED
    BY <1>5, <2>1, <2>2, <2>3
<1>10. CASE RemoveUser(w)
  <2>1. access' = [access EXCEPT ![job[w].record] = @ \ {UserOf(w)}]
    BY <1>10 DEF RemoveUser
  <2>2. u \notin access'[r]
    BY <1>2, <1>3, <2>1 DEF TypeOK
  <2>3. QED
    BY <2>2
<1>11. CASE Kill(w)
  BY <1>4, <1>11 DEF Kill
<1>12. QED
  BY <1>1, <1>4, <1>6, <1>7, <1>8, <1>9, <1>10, <1>11
  DEF Handle, SetAdminStatus, ListRequest, LookGrant, LookRevoke, LookMissing, AddUser, At

\* A trace that w closes is one of the access w is at.
LEMMA TraceGoesOn ==
    ASSUME TypeOK, Linked, JobsSound, Kept, NEW w \in Workers, Handle(w),
           NEW u, NEW r, Traced(u, r)
    PROVE  Traced(u, r)' \/ (InBetween(w)' /\ <<u, r>> = Pair(w)')
<1>1. PICK k \in DOMAIN seqs :
         Active(seqs[k]) /\ seqs[k].record = r /\ requests[seqs[k].grant].user = u
  BY DEF Traced
<1>2. SeqsKept
  BY SeqsStep
<1>3. CASE Active(seqs'[k])
  BY <1>1, <1>2, <1>3, TraceStays
<1>4. CASE ~Active(seqs'[k])
  <2>1. ~UNCHANGED seqs
    BY <1>1, <1>4
  <2>2. PICK m \in DOMAIN seqs :
           /\ RevokeSequence(w, m) \/ ExtendId(w)
           /\ job[w] # Nothing /\ job[w].step \in {"close", "extend"}
           /\ m \in job[w].rows /\ Closed(w, m)
    BY <1>1, <1>4, <2>1, SeqsStep DEF Created
  <2>3. m = k
    BY <1>1, <1>4, <2>2 DEF Closed
  <2>4. MayRevoke(job[w], k, requests, seqs) /\ job[w].request \in DOMAIN requests
    BY <2>2, <2>3 DEF JobsSound, Sound, Informed, Placed
  <2>5. <<u, r>> = Pair(w)
    BY <1>1, <2>4 DEF MayRevoke, Pair, UserOf
  <2>6. /\ job \in [Workers -> Job \cup {Nothing}] /\ job[w] \in Job
    BY <2>2 DEF TypeOK
  <2>7. ASSUME NEW j \in Job, job' = [job EXCEPT ![w] = j],
               j.request = job[w].request, j.record = job[w].record,
               j.step \in {"close", "extend", "remove"}
        PROVE  InBetween(w)' /\ <<u, r>> = Pair(w)'
    <3>1. job'[w] = j /\ j # Nothing
      BY <2>6, <2>7, OneselfAssumption
    <3>2. QED
      BY <2>2, <2>5, <2>7, <3>1, BetweenStays
  <2>8. CASE RevokeSequence(w, m)
    <3> DEFINE j == [job[w] EXCEPT !.step = "extend", !.row = m]
    <3>1. job' = [job EXCEPT ![w] = j]
      BY <2>1, <2>8 DEF RevokeSequence
    <3>2. m \in Nat
      BY LenProperties DEF TypeOK
    <3>3. /\ j \in Job /\ j.request = job[w].request
          /\ j.record = job[w].record /\ j.step = "extend"
      BY <2>6, <3>2 DEF Job
    <3> HIDE DEF j
    <3>4. QED
      BY <2>7, <3>1, <3>3
  <2>9. CASE ExtendId(w)
    <3> DEFINE rows == job[w].rows \ {job[w].row}
               step == IF rows = {} THEN "remove" ELSE "close"
               j == [job[w] EXCEPT !.step = step, !.rows = rows, !.row = 0]
    <3>1. job' = [job EXCEPT ![w] = j]
      BY <2>9 DEF ExtendId
    <3>2. step \in {"remove", "close"} /\ rows \subseteq job[w].rows
      OBVIOUS
    <3> HIDE DEF step, rows
    <3>3. /\ j \in Job /\ j.request = job[w].request
          /\ j.record = job[w].record /\ j.step = step
      BY <2>6, <3>2 DEF Job
    <3> HIDE DEF j
    <3>4. QED
      BY <2>7, <3>1, <3>2, <3>3
  <2>10. QED
    BY <2>2, <2>8, <2>9
<1>5. QED
  BY <1>3, <1>4

\* An access that an administrator gave by hand, or that a job left without a
\* trace, stays so until it ends or is traced.
LEMMA GhostsStay ==
    ASSUME TypeOK, Linked, JobsSound, Kept, NEW w \in Workers, Handle(w),
           NEW u, NEW r, <<u, r>> \in byHand \cup cut, u \in access'[r]
    PROVE  <<u, r>> \in byHand' \cup cut' \/ Traced(u, r)'
<1>1. CASE byHand \subseteq byHand' /\ cut \subseteq cut'
  BY <1>1
<1>2. CASE RemoveUser(w)
  <2>1. job[w].record \in Records /\ job[w] # Nothing
    BY <1>2, PairType DEF RemoveUser, At
  <2>2. access' = [access EXCEPT ![job[w].record] = @ \ {UserOf(w)}]
    BY <1>2 DEF RemoveUser
  <2>3. UserOf(w) \notin access'[job[w].record]
    BY <2>1, <2>2 DEF TypeOK
  <2>4. <<u, r>> # Pair(w)
    BY <2>3 DEF Pair
  <2>5. QED
    BY <1>2, <2>4 DEF RemoveUser
<1>3. CASE CreateSequence(w)
  <2>1. At(w, "create") /\ byHand' = byHand
    BY <1>3 DEF CreateSequence
  <2>2. CASE cut \subseteq cut'
    BY <2>1, <2>2
  <2>3. CASE seqs' = Append(seqs, NewSequence(w)) /\ cut' = cut \ {Pair(w)}
    <3>1. CASE <<u, r>> = Pair(w)
      BY <2>1, <2>3, <3>1, RowCreated, CreatedTraced
    <3>2. CASE <<u, r>> # Pair(w)
      BY <2>1, <2>3, <3>2
    <3>3. QED
      BY <3>1, <3>2
  <2>4. QED
    BY <1>3, <2>2, <2>3 DEF CreateSequence
<1>4. QED
  BY <1>1, <1>2, <1>3
  DEF ghosts, Handle, SetAdminStatus, ListRequest, LookGrant, LookRevoke, LookMissing,
      RevokeSequence, AddUser, ReadNumber, ExtendId, Kill

\* Whom a worker lets in is in between.
LEMMA LetIn ==
    ASSUME TypeOK, Linked, JobsSound, Kept, NEW w \in Workers, Handle(w),
           NEW r \in Records, NEW u \in access'[r], u \notin access[r]
    PROVE  InBetween(w)' /\ <<u, r>> = Pair(w)'
<1>1. CASE RemoveUser(w) \/ UNCHANGED access
  BY <1>1 DEF RemoveUser, TypeOK
<1>2. CASE AddUser(w)
  <2>1. /\ job \in [Workers -> Job \cup {Nothing}]
        /\ job[w] # Nothing /\ job[w] \in Job /\ job[w].step = "add"
    BY <1>2 DEF AddUser, At, TypeOK
  <2>2. job[w].record \in Records /\ job[w].task = "grant"
    BY <2>1 DEF JobsSound, Sound, Placed
  <2>3. access' = [access EXCEPT ![job[w].record] = @ \cup {UserOf(w)}]
    BY <1>2 DEF AddUser
  <2>4. u = UserOf(w) /\ r = job[w].record
    BY <2>2, <2>3 DEF TypeOK
  <2> DEFINE j == [job[w] EXCEPT !.step = "number"]
  <2>5. job' = [job EXCEPT ![w] = j]
    BY <1>2 DEF AddUser, Goto
  <2>6. /\ j \in Job /\ j.task = "grant" /\ j.request = job[w].request
        /\ j.record = job[w].record /\ j.step = "number"
    BY <2>1, <2>2 DEF Job
  <2> HIDE DEF j
  <2>7. job'[w] = j /\ j # Nothing
    BY <2>1, <2>5, <2>6, OneselfAssumption
  <2>8. QED
    BY <2>1, <2>4, <2>6, <2>7, BetweenStays DEF Pair
<1>3. QED
  BY <1>1, <1>2
  DEF Handle, SetAdminStatus, ListRequest, LookGrant, LookRevoke, LookMissing,
      RevokeSequence, ReadNumber, CreateSequence, ExtendId, Kill

\* Every step of a worker keeps the access covered.
LEMMA WorkerCover ==
    ASSUME TypeOK, Linked, JobsSound, Kept, requests' \in Seq(Request),
           AccessBehindSequence, NEW w \in Workers, Handle(w)
    PROVE  AccessBehindSequence'
<1>1. SUFFICES ASSUME NEW r \in Records, NEW u \in access'[r]
               PROVE  Covered(u, r)'
  BY DEF AccessBehindSequence, Covered
<1>2. CASE u \notin access[r]
  BY <1>2, LetIn DEF Covered
<1>3. ASSUME Traced(u, r) PROVE Covered(u, r)'
  BY <1>3, TraceGoesOn DEF Covered
<1>4. CASE u \in access[r]
  <2>1. Covered(u, r)
    BY <1>4 DEF AccessBehindSequence, Covered
  <2>2. CASE <<u, r>> \in byHand \cup cut
    BY <2>2, GhostsStay DEF Covered
  <2>3. ASSUME NEW v \in Workers, InBetween(v), <<u, r>> = Pair(v)
        PROVE  Covered(u, r)'
    <3>1. CASE v = w
      BY <1>3, <1>4, <2>3, <3>1, OwnPair DEF Covered
    <3>2. CASE v # w
      <4>1. job'[v] = job[v]
        BY <3>2, SeqsStep, WorkerJobs DEF JobsStep
      <4>2. /\ job[v] # Nothing
            /\ \/ job[v].task = "grant" /\ job[v].step \in {"number", "create"}
               \/ job[v].step \in {"close", "extend", "remove"}
        BY <2>3 DEF InBetween, At, Does
      <4>3. InBetween(v)' /\ Pair(v)' = Pair(v)
        BY <4>1, <4>2, BetweenStays
      <4>4. QED
        BY <2>3, <4>3 DEF Covered
    <3>3. QED
      BY <3>1, <3>2
  <2>4. QED
    BY <1>3, <2>1, <2>2, <2>3 DEF Covered
<1>5. QED
  BY <1>2, <1>4

\* So does an administrator's edit.
LEMMA EditCover ==
    ASSUME TypeOK, Linked, JobsSound, Kept, AccessBehindSequence,
           NEW r \in Records, NEW users \in SUBSET Users, EditAccessUsers(r, users)
    PROVE  AccessBehindSequence'
<1>1. SUFFICES ASSUME NEW q \in Records, NEW u \in access'[q]
               PROVE  Covered(u, q)'
  BY DEF AccessBehindSequence, Covered
<1>2. /\ UNCHANGED <<requests, seqs, job>>
      /\ access' = [access EXCEPT ![r] = users]
      /\ byHand' = (byHand \ (Users \X {r})) \cup
            ((users \ {x \in access[r] : <<x, r>> \notin byHand}) \X {r})
      /\ cut' = {p \in cut : p[2] # r \/ p[1] \in users}
  BY DEF EditAccessUsers
<1>3. ASSUME Traced(u, q) PROVE Covered(u, q)'
  BY <1>2, <1>3 DEF Traced, Covered
<1>4. ASSUME NEW w \in Workers, InBetween(w), <<u, q>> = Pair(w)
      PROVE  Covered(u, q)'
  BY <1>2, <1>4 DEF Covered, InBetween, At, Does, Pair, UserOf
<1>5. CASE q = r
  <2>1. u \in users
    BY <1>2, <1>5 DEF TypeOK
  <2>2. CASE u \notin access[r] \/ <<u, r>> \in byHand
    <3>1. <<u, q>> \in byHand'
      BY <1>2, <1>5, <2>1, <2>2
    <3>2. QED
      BY <3>1 DEF Covered
  <2>3. CASE u \in access[r] /\ <<u, r>> \in cut
    <3>1. <<u, q>> \in cut'
      BY <1>2, <1>5, <2>1, <2>3
    <3>2. QED
      BY <3>1 DEF Covered
  <2>4. QED
    BY <1>3, <1>4, <1>5, <2>2, <2>3 DEF AccessBehindSequence
<1>6. CASE q # r
  <2>1. u \in access[q]
    BY <1>2, <1>6 DEF TypeOK
  <2>2. CASE <<u, q>> \in byHand
    <3>1. <<u, q>> \in byHand'
      BY <1>2, <1>6, <2>2
    <3>2. QED
      BY <3>1 DEF Covered
  <2>3. CASE <<u, q>> \in cut
    <3>1. <<u, q>> \in cut'
      BY <1>2, <1>6, <2>3
    <3>2. QED
      BY <3>1 DEF Covered
  <2>4. QED
    BY <1>3, <1>4, <2>1, <2>2, <2>3 DEF AccessBehindSequence
<1>7. QED
  BY <1>5, <1>6

-----------------------------------------------------------------------------
(* All steps together.                                                     *)

\* Steps that leave the sequences and the jobs alone keep the links, the jobs,
\* the numbers and the ids.
LEMMA RestStays ==
    ASSUME TypeOK, Linked, JobsSound, NumbersFresh, OnlyNamedRevoked, IdsDistinct,
           Kept, UNCHANGED <<seqs, job, raced>>
    PROVE  Linked' /\ JobsSound' /\ NumbersFresh' /\ OnlyNamedRevoked' /\ IdsDistinct'
<1>1. Linked' /\ OnlyNamedRevoked'
  BY LinksStay
<1>2. JobsSound'
  BY SoundStays DEF JobsSound, SeqsKept
<1>3. NumbersFresh' /\ IdsDistinct'
  BY DEF NumbersFresh, IdsDistinct, At
<1>4. QED
  BY <1>1, <1>2, <1>3

\* Submissions, reviews, edits of requests: the requests alone change, and what
\* a worker has checked.
LEMMA RequestsOnly ==
    ASSUME IInv, requests' \in Seq(Request), Kept,
           checked' \in [Submitters -> Wish \cup {Nothing}],
           UNCHANGED <<access, seqs, job, kills, ghosts>>
    PROVE  IInv'
<1>1. TypeOK'
  BY DEF IInv, TypeOK, ghosts
<1>2. Linked' /\ JobsSound' /\ NumbersFresh' /\ OnlyNamedRevoked' /\ IdsDistinct'
  BY RestStays DEF IInv, ghosts
<1>3. AccessBehindSequence'
  BY CoverStays DEF IInv, ghosts, AccessBehindSequence, Covered
<1>4. QED
  BY <1>1, <1>2, <1>3 DEF IInv

\* The invariant holds initially.
LEMMA InitIInv == Init => IInv
<1> SUFFICES ASSUME Init PROVE IInv
  OBVIOUS
<1>1. TypeOK
  <2>1. requests \in Seq(Request) /\ seqs \in Seq(Sequence)
    BY EmptySeq DEF Init
  <2>2. /\ access \in [Records -> SUBSET Users]
        /\ byHand \in SUBSET (Users \X Records) /\ cut \in SUBSET (Users \X Records)
    BY DEF Init
  <2>3. /\ checked \in [Submitters -> Wish \cup {Nothing}]
        /\ job \in [Workers -> Job \cup {Nothing}]
    BY DEF Init
  <2>4. kills \in 0..MaxKills
    BY BoundAssumption DEF Init
  <2>5. raced \in BOOLEAN
    BY DEF Init
  <2>6. QED
    BY <2>1, <2>2, <2>3, <2>4, <2>5 DEF TypeOK
<1>2. AccessBehindSequence
  BY DEF Init, AccessBehindSequence
<1>3. /\ Linked /\ OnlyNamedRevoked /\ IdsDistinct
      /\ JobsSound /\ NumbersFresh
  BY DEF Init, Linked, OnlyNamedRevoked, IdsDistinct, JobsSound, NumbersFresh, At
<1>4. QED
  BY <1>1, <1>2, <1>3 DEF IInv

\* Every step preserves it.
LEMMA NextIInv == IInv /\ [Next]_vars => IInv'
<1> SUFFICES ASSUME IInv, [Next]_vars PROVE IInv'
  OBVIOUS
<1>1. TypeOK /\ Linked /\ JobsSound /\ NumbersFresh
      /\ AccessBehindSequence /\ OnlyNamedRevoked /\ IdsDistinct
  BY DEF IInv
<1>2. CASE UNCHANGED vars
  <2>1. Kept
    BY <1>2 DEF Kept, vars
  <2>2. QED
    BY <1>1, <1>2, <2>1, RequestsOnly DEF vars, ghosts, TypeOK
<1>3. CASE Next
  <2>1. requests' \in Seq(Request) /\ Kept
    BY <1>1, <1>3, RequestsStep
  <2>2. ASSUME NEW w \in Submitters, NEW wish \in Wish, CheckSubmission(w, wish)
        PROVE  IInv'
    BY <1>1, <2>1, <2>2, RequestsOnly DEF CheckSubmission, TypeOK
  <2>3. ASSUME NEW w \in Submitters, CreateRequest(w) PROVE IInv'
    BY <1>1, <2>1, <2>3, RequestsOnly DEF CreateRequest, TypeOK
  <2>4. ASSUME NEW i \in DOMAIN requests, NEW chosen \in SUBSET Records,
               SubmitRevoke(i, chosen)
        PROVE  IInv'
    BY <1>1, <2>1, <2>4, RequestsOnly DEF SubmitRevoke, TypeOK
  <2>5. ASSUME NEW i \in DOMAIN requests, NEW s \in Statuses, Review(i, s)
        PROVE  IInv'
    BY <1>1, <2>1, <2>5, RequestsOnly DEF Review, TypeOK
  <2>6. ASSUME NEW i \in DOMAIN requests, NEW wanted \in (SUBSET Records) \ {{}},
               EditRequest(i, wanted)
        PROVE  IInv'
    BY <1>1, <2>1, <2>6, RequestsOnly DEF EditRequest, TypeOK
  <2>7. ASSUME NEW w \in Workers, Handle(w) PROVE IInv'
    <3>1. TypeOK'
      BY <1>1, <2>1, <2>7, WorkerTypes
    <3>2. Linked' /\ OnlyNamedRevoked'
      BY <1>1, <2>1, <2>7, WorkerLinks
    <3>3. JobsSound'
      <4>1. SeqsKept
        BY <1>1, <2>7, SeqsStep
      <4>2. JobsStep(w)
        BY <1>1, <2>1, <2>7, <4>1, WorkerJobs
      <4>3. QED
        BY <1>1, <2>1, <4>1, <4>2, SoundStays DEF JobsStep, JobsSound
    <3>4. NumbersFresh' /\ IdsDistinct'
      BY <1>1, <2>1, <2>7, WorkerNumbers
    <3>5. AccessBehindSequence'
      BY <1>1, <2>1, <2>7, WorkerCover
    <3>6. QED
      BY <3>1, <3>2, <3>3, <3>4, <3>5 DEF IInv
  <2>8. ASSUME NEW r \in Records, NEW users \in SUBSET Users, EditAccessUsers(r, users)
        PROVE  IInv'
    <3>1. TypeOK'
      <4>1. /\ access' \in [Records -> SUBSET Users]
            /\ UNCHANGED <<requests, seqs, checked, job, kills, raced>>
        BY <1>1, <2>8 DEF EditAccessUsers, TypeOK
      <4>2. byHand' \in SUBSET (Users \X Records) /\ cut' \in SUBSET (Users \X Records)
        BY <1>1, <2>8 DEF EditAccessUsers, TypeOK
      <4>3. QED
        BY <1>1, <4>1, <4>2 DEF TypeOK
    <3>2. Linked' /\ JobsSound' /\ NumbersFresh' /\ OnlyNamedRevoked' /\ IdsDistinct'
      BY <1>1, <2>1, <2>8, RestStays DEF EditAccessUsers
    <3>3. AccessBehindSequence'
      BY <1>1, <2>1, <2>8, EditCover
    <3>4. QED
      BY <3>1, <3>2, <3>3 DEF IInv
  <2>9. QED
    BY <1>3, <2>2, <2>3, <2>4, <2>5, <2>6, <2>7, <2>8 DEF Next
<1>4. QED
  BY <1>2, <1>3

-----------------------------------------------------------------------------
(* Results.                                                                *)

\* The variables keep their types.
THEOREM TypeCorrect == Spec => []TypeOK
<1>1. IInv => TypeOK
  BY DEF IInv
<1>2. QED
  BY InitIInv, NextIInv, <1>1, PTL DEF Spec

\* A user let into a record, but not by hand, has an active sequence there,
\* however the steps of process_approved_grant_request,
\* process_approved_revoke_request and the list views interleave with each
\* other and with update_access - or a job is at it, or was cut short there.
THEOREM AccessTraced == Spec => []AccessBehindSequence
<1>1. IInv => AccessBehindSequence
  BY DEF IInv
<1>2. QED
  BY InitIInv, NextIInv, <1>1, PTL DEF Spec

\* process_approved_revoke_request closes only what the request names, also
\* when other handlers have run since it read the sequences to close.
THEOREM RevokesNamed == Spec => []OnlyNamedRevoked
<1>1. IInv => OnlyNamedRevoked
  BY DEF IInv
<1>2. QED
  BY InitIInv, NextIInv, <1>1, PTL DEF Spec

\* Handlers that number sequences never give a number out twice within a grant,
\* unless two of them have read the last number before either used it.
THEOREM IdsUnique == Spec => []IdsDistinct
<1>1. IInv => IdsDistinct
  BY DEF IInv
<1>2. QED
  BY InitIInv, NextIInv, <1>1, PTL DEF Spec
=============================================================================
