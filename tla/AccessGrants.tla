---------------------------- MODULE AccessGrants ----------------------------
(***************************************************************************)
(* What granted and revoked requests do to the access records              *)
(* (app_access): the users a record lets in, and the AccessRequestSequence *)
(* rows that tie an access to the grant request that opened it and to the  *)
(* revoke request that closed it.                                          *)
(*                                                                         *)
(* set_admin_status processes a granted request, and a page that lists     *)
(* requests creates missing sequences, record by record: a step is one     *)
(* write, or the reads before it.  Several workers do so at once, and one  *)
(* may be killed between two steps.  A submission is two steps, its check  *)
(* for duplicates and its creation; the other handlers are one.  Which     *)
(* approvals move a request from one status to another is the subject of   *)
(* AccessApproval: here a review may set any status that workflow allows.  *)
(* All requests are for one system and environment and their period does   *)
(* not end.                                                                *)
(***************************************************************************)
EXTENDS Naturals, Sequences, FiniteSetsExt

CONSTANTS
    Users,          \* Django users
    Parties,        \* third-party persons
    Records,        \* SystemAccess records
    Submitters,     \* workers that handle submissions
    Workers,        \* workers that process granted requests and list requests
    Oneself,        \* the party of a request that names no third party
    Nothing,        \* a worker handles no submission, or has no job
    MaxRequests,    \* bound: requests created in a behaviour
    MaxOrder,       \* bound: order numbers of one grant request
    MaxKills        \* bound: workers killed in the middle of a job

ASSUME BoundAssumption == MaxRequests \in Nat /\ MaxOrder \in Nat /\ MaxKills \in Nat

VARIABLES
    requests,   \* AccessRequest rows in the order of their creation
    access,     \* SystemAccess.access_users of every record
    seqs,       \* AccessRequestSequence rows by primary key
    checked,    \* the submission each worker has checked and not yet created
    job,        \* what each worker is processing
    kills,      \* workers killed so far
    byHand,     \* <<user, record>> let in by an administrator's edit (ghost)
    cut,        \* <<user, record>> left without a trace by a job cut short (ghost)
    raced       \* two workers have numbered sequences of a grant at once (ghost)

vars == <<requests, access, seqs, checked, job, kills, byHand, cut, raced>>
ghosts == <<byHand, cut, raced>>

\* A cancelled request is one rejected for good; "in_progress" is no different
\* from "pending" as long as the period has not ended.
Statuses == {"pending", "approved", "rejected"}
AdminStatuses == {"pending", "granted", "denied"}

\* A sequence is revoked by the request `revoke`, active when that is 0; `part`
\* is the fourth part of its sequence_id, 0 when it has three.
Sequence == [record : Records, grant : Nat, order : Nat, revoke : Nat, part : Nat]

\* A sequence_id cut to its first three parts, and whole.
Id(s) == <<s.record, s.grant, s.order>>
Ids == Records \X Nat \X Nat
SequenceId(s) == <<Id(s), s.part>>

\* Who shall get access to which records.
Wish == [user : Users, party : Parties \cup {Oneself},
         records : (SUBSET Records) \ {{}}]

\* `ids` is revoked_grant_access_record_ids.
Request == [kind : {"grant", "revoke"}, user : Users,
            party : Parties \cup {Oneself}, records : (SUBSET Records) \ {{}},
            status : Statuses, admin : AdminStatuses, ids : SUBSET Ids]

\* The loop over the records of a request: those `left`, the one it is at, the
\* order number read for it, the sequences to revoke and the one being revoked.
Job == [task : {"grant", "list", "revoke"}, request : Nat, left : SUBSET Records,
        step : {"next", "add", "number", "create", "close", "extend", "remove"},
        record : Records \cup {Nothing}, number : Nat, rows : SUBSET Nat, row : Nat]

ASSUME OneselfAssumption == Oneself \notin Parties /\ Nothing \notin Wish \cup Job

TypeOK ==
    /\ requests \in Seq(Request)
    /\ access \in [Records -> SUBSET Users]
    /\ seqs \in Seq(Sequence)
    /\ checked \in [Submitters -> Wish \cup {Nothing}]
    /\ job \in [Workers -> Job \cup {Nothing}]
    /\ kills \in 0..MaxKills
    /\ byHand \in SUBSET (Users \X Records)
    /\ cut \in SUBSET (Users \X Records)
    /\ raced \in BOOLEAN

\* The records are created with the users an administrator has chosen.
Init ==
    /\ requests = <<>>
    /\ access \in [Records -> SUBSET Users]
    /\ seqs = <<>>
    /\ checked = [w \in Submitters |-> Nothing]
    /\ job = [w \in Workers |-> Nothing]
    /\ kills = 0
    /\ cut = {} /\ raced = FALSE
    /\ byHand = {p \in Users \X Records : p[1] \in access[p[2]]}

-----------------------------------------------------------------------------
(* submit_access_request.                                                  *)

Live(i) ==
    /\ requests[i].kind = "grant"
    /\ requests[i].status \in {"pending", "approved"}
    /\ requests[i].admin # "denied"

Revoking(i) == requests[i].kind = "revoke" /\ requests[i].admin = "granted"

\* Requests the check looks at: those in the name of the cabinet user, or
\* those for the third-party person.
Concerns(i, wish) ==
    IF wish.party = Oneself THEN requests[i].user = wish.user
                            ELSE requests[i].party = wish.party

\* Live grant i stands in the way, unless a later revocation of one of the
\* shared records was granted and no live grant followed the latest of them.
Blocks(i, wish) ==
    LET shared == requests[i].records \cap wish.records
        Touching(P(_)) ==
            {k \in DOMAIN requests : /\ P(k) /\ Concerns(k, wish)
                                     /\ requests[k].records \cap shared # {}}
        revokes == {k \in Touching(Revoking) : k > i}
    IN  /\ Live(i) /\ Concerns(i, wish) /\ shared # {}
        /\ revokes = {} \/ \E k \in Touching(Live) : k > Max(revokes)

Duplicate(wish) == \E i \in DOMAIN requests : Blocks(i, wish)

CheckSubmission(w, wish) ==
    /\ checked[w] = Nothing
    /\ Len(requests) < MaxRequests
    /\ ~Duplicate(wish)
    /\ checked' = [checked EXCEPT ![w] = wish]
    /\ UNCHANGED <<requests, access, seqs, job, kills, ghosts>>

Submitted(kind, wish, ids) ==
    [kind |-> kind, user |-> wish.user, party |-> wish.party,
     records |-> wish.records, status |-> "pending", admin |-> "pending",
     ids |-> ids]

\* The transaction that creates the request, some time after the check.
CreateRequest(w) ==
    /\ checked[w] # Nothing
    /\ Len(requests) < MaxRequests
    /\ requests' = Append(requests, Submitted("grant", checked[w], {}))
    /\ checked' = [checked EXCEPT ![w] = Nothing]
    /\ UNCHANGED <<access, seqs, job, kills, ghosts>>

-----------------------------------------------------------------------------
(* handle_granular_revoke_request, from the form that lists granted        *)
(* requests (get_approved_access_requests) or without the ids it offers.   *)
(* A form that names several requests revokes each in a step of its own.   *)
(* handle_revoke_request's older form, for a whole request, fails before   *)
(* it changes anything: it reads AccessRequest.access_record_id, a field   *)
(* the class no longer has.                                                *)

Of(i, r) == {k \in DOMAIN seqs : seqs[k].grant = i /\ seqs[k].record = r}
Active(s) == s.revoke = 0

Firsts(i, r) == {k \in Of(i, r) : \A m \in Of(i, r) : seqs[k].order <= seqs[m].order}

\* Variant: an id without the order number.
OfferedRecord(i, r) == <<r, i>>

\* The form offers the first sequence, or makes up the id of one.
Offered(i, r) ==
    IF Of(i, r) = {} THEN <<r, i, 1>> ELSE Id(seqs[CHOOSE k \in Firsts(i, r) : TRUE])

ShownRevoked(i, r) ==
    \/ Of(i, r) # {} /\ \A k \in Firsts(i, r) : ~Active(seqs[k])
    \/ \E j \in DOMAIN requests :
          Revoking(j) /\ r \in requests[j].records /\ Offered(i, r) \in requests[j].ids

SubmitRevoke(i, chosen) ==
    /\ Len(requests) < MaxRequests
    /\ requests[i].kind = "grant"
    /\ requests[i].status = "approved" /\ requests[i].admin = "granted"
    /\ chosen # {} /\ chosen \subseteq requests[i].records
    /\ \E ids \in {{Offered(i, r) : r \in chosen},
                   {Id(seqs[k]) : k \in {m \in UNION {Of(i, r) : r \in chosen} :
                                             Active(seqs[m])}}} :
        /\ ids = {Offered(i, r) : r \in chosen}
              => \A r \in chosen : ~ShownRevoked(i, r)
        /\ requests' = Append(requests,
              Submitted("revoke", [requests[i] EXCEPT !.records = chosen], ids))
    /\ UNCHANGED <<access, seqs, checked, job, kills, ghosts>>

-----------------------------------------------------------------------------
(* Approvers and requester: any change of status the workflow allows.      *)

Review(i, s) ==
    /\ requests' = [requests EXCEPT ![i].status = s]
    /\ UNCHANGED <<access, seqs, checked, job, kills, ghosts>>

\* edit_access_request; there is no check for duplicates here.
EditRequest(i, wanted) ==
    /\ requests[i].kind = "grant" /\ requests[i].status = "pending"
    /\ requests' = [requests EXCEPT ![i].records = wanted]
    /\ UNCHANGED <<access, seqs, checked, job, kills, ghosts>>

-----------------------------------------------------------------------------
(* The loops over the records of a request.                                *)

NewJob(task, i, left) ==
    IF left = {} THEN Nothing
    ELSE [task |-> task, request |-> i, left |-> left, step |-> "next",
          record |-> Nothing, number |-> 0, rows |-> {}, row |-> 0]

At(w, step) == job[w] # Nothing /\ job[w].step = step
Does(w, task) == job[w] # Nothing /\ job[w].task = task

\* Whom the job of w lets in or out.
UserOf(w) == requests[job[w].request].user
Pair(w) == <<UserOf(w), job[w].record>>

\* On with the loop, or with record r of it.
Proceed(w) == job' = [job EXCEPT ![w] = NewJob(@.task, @.request, @.left)]
Pass(w, r) == job' = [job EXCEPT ![w] = NewJob(@.task, @.request, @.left \ {r})]
Begin(w, r, step, rows) ==
    job' = [job EXCEPT ![w] = [job[w] EXCEPT !.left = @ \ {r}, !.record = r,
                                             !.step = step, !.rows = rows]]
Goto(w, step) == job' = [job EXCEPT ![w].step = step]

Traced(u, r) ==
    \E k \in DOMAIN seqs :
        Active(seqs[k]) /\ seqs[k].record = r /\ requests[seqs[k].grant].user = u

\* The access of w's record that is left without a trace if w stops here.
LeftUntraced(w) ==
    {p \in {Pair(w)} : job[w].record \in Records /\ p[1] \in access[p[2]]
                                                 /\ ~Traced(p[1], p[2])}

\* No other row has this sequence_id, which is unique.
Free(id, k) == \A m \in DOMAIN seqs : SequenceId(seqs[m]) = id => m = k

-----------------------------------------------------------------------------
(* set_admin_status saves the status, then processes a granted request.    *)

SetAdminStatus(w, i, s) ==
    /\ job[w] = Nothing
    /\ requests[i].status = "approved"
    /\ requests[i].admin # "denied"
    /\ requests[i].kind = "revoke" /\ requests[i].admin = "granted" => s = "granted"
    /\ requests' = [requests EXCEPT ![i].admin = s]
    /\ job' = IF s # "granted" THEN job
              ELSE [job EXCEPT ![w] = NewJob(requests[i].kind, i, requests[i].records)]
    /\ UNCHANGED <<access, seqs, checked, kills, ghosts>>

\* process_approved_grant_request: a record that lets the user in is skipped,
\* and gets no sequence.
LookGrant(w, r) ==
    /\ At(w, "next") /\ Does(w, "grant") /\ r \in job[w].left
    /\ IF UserOf(w) \in access[r] THEN Pass(w, r) ELSE Begin(w, r, "add", {})
    /\ UNCHANGED <<requests, access, seqs, checked, kills, ghosts>>

AddUser(w) ==
    /\ At(w, "add")
    /\ access' = [access EXCEPT ![job[w].record] = @ \cup {UserOf(w)}]
    /\ Goto(w, "number")
    /\ UNCHANGED <<requests, seqs, checked, kills, ghosts>>

\* Variant: revoked sequences are not counted.
LastActiveOrder(i) ==
    Max({0} \cup {seqs[k].order : k \in {m \in DOMAIN seqs :
                                            seqs[m].grant = i /\ Active(seqs[m])}})

LastOrder(i) ==
    Max({0} \cup {seqs[k].order : k \in {m \in DOMAIN seqs : seqs[m].grant = i}})

\* The last order number of the grant is read ...
ReadNumber(w) ==
    LET i == job[w].request IN
    /\ At(w, "number")
    /\ LastOrder(i) < MaxOrder
    /\ job' = [job EXCEPT ![w] = [@ EXCEPT !.step = "create",
                                           !.number = LastOrder(i) + 1]]
    /\ raced' = (raced \/ \E v \in Workers :
                              v # w /\ At(v, "create") /\ job[v].request = i)
    /\ UNCHANGED <<requests, access, seqs, checked, kills, byHand, cut>>

NewSequence(w) ==
    [record |-> job[w].record, grant |-> job[w].request, order |-> job[w].number,
     revoke |-> 0, part |-> 0]

\* ... and the sequence created; the error when its id is taken is logged only.
CreateSequence(w) ==
    /\ At(w, "create")
    /\ IF Free(SequenceId(NewSequence(w)), 0)
       THEN /\ seqs' = Append(seqs, NewSequence(w))
            /\ cut' = cut \ {Pair(w)}
       ELSE /\ cut' = cut \cup LeftUntraced(w)
            /\ UNCHANGED seqs
    /\ Proceed(w)
    /\ UNCHANGED <<requests, access, checked, kills, byHand, raced>>

-----------------------------------------------------------------------------
(* process_approved_revoke_request.                                        *)

\* The grants of the user of j for record r that are still granted.
GrantsFor(j, r) ==
    {i \in DOMAIN requests :
        /\ requests[i].kind = "grant" /\ requests[i].admin = "granted"
        /\ requests[i].user = requests[j].user /\ r \in requests[i].records}

\* Variant: the ids of the request are not looked at.
ToRevokeAll(j, r) ==
    {k \in DOMAIN seqs : /\ Active(seqs[k]) /\ seqs[k].record = r
                         /\ seqs[k].grant \in GrantsFor(j, r)}

\* sequences_to_revoke
ToRevoke(j, r) ==
    {k \in DOMAIN seqs :
        /\ Active(seqs[k]) /\ seqs[k].record = r
        /\ seqs[k].grant \in GrantsFor(j, r)
        /\ requests[j].ids = {} \/ Id(seqs[k]) \in requests[j].ids}

\* The loop does not `continue` over record r.
Revocable(j, r) ==
    /\ requests[j].user \in access[r]
    /\ GrantsFor(j, r) # {}
    /\ requests[j].ids = {} \/ ToRevoke(j, r) # {}

LookRevoke(w, r) ==
    LET j == job[w].request
        rows == ToRevoke(j, r)
    IN  /\ At(w, "next") /\ Does(w, "revoke") /\ r \in job[w].left
        /\ IF ~Revocable(j, r) THEN Pass(w, r)
           ELSE Begin(w, r, IF rows = {} THEN "remove" ELSE "close", rows)
        /\ UNCHANGED <<requests, access, seqs, checked, kills, ghosts>>

\* revoke_sequence saves the whole row, with the id of three parts it was loaded
\* with; when that id is taken meanwhile, the error ends the loop.
RevokeSequence(w, k) ==
    /\ At(w, "close") /\ k \in job[w].rows
    /\ IF Free(<<Id(seqs[k]), 0>>, k)
       THEN /\ seqs' = [seqs EXCEPT ![k].revoke = job[w].request, ![k].part = 0]
            /\ job' = [job EXCEPT ![w].step = "extend", ![w].row = k]
            /\ UNCHANGED cut
       ELSE /\ job' = [job EXCEPT ![w] = Nothing]
            /\ cut' = cut \cup LeftUntraced(w)
            /\ UNCHANGED seqs
    /\ UNCHANGED <<requests, access, checked, kills, byHand, raced>>

\* The second save of the row, which adds the fourth part; an error is logged.
ExtendId(w) ==
    LET k == job[w].row
        j == job[w].request
        rows == job[w].rows \ {k}
    IN  /\ At(w, "extend")
        /\ seqs' = IF Free(<<Id(seqs[k]), j>>, k)
                   THEN [seqs EXCEPT ![k].revoke = j, ![k].part = j] ELSE seqs
        /\ job' = [job EXCEPT ![w] = [@ EXCEPT
              !.step = IF rows = {} THEN "remove" ELSE "close", !.rows = rows, !.row = 0]]
        /\ UNCHANGED <<requests, access, checked, kills, ghosts>>

\* Variant: access_users.remove is forgotten.
KeepUser(w) ==
    /\ At(w, "remove")
    /\ Proceed(w)
    /\ UNCHANGED <<requests, access, seqs, checked, kills, ghosts>>

RemoveUser(w) ==
    /\ At(w, "remove")
    /\ access' = [access EXCEPT ![job[w].record] = @ \ {UserOf(w)}]
    /\ byHand' = byHand \ {Pair(w)} /\ cut' = cut \ {Pair(w)}
    /\ Proceed(w)
    /\ UNCHANGED <<requests, seqs, checked, kills, raced>>

-----------------------------------------------------------------------------
(* The pages that list requests create the sequences a granted request     *)
(* misses (the four list views share the code).  A page on which none is   *)
(* missing does nothing.                                                   *)

ListRequest(w, i) ==
    LET missing == {r \in requests[i].records : Of(i, r) = {}} IN
    /\ job[w] = Nothing
    /\ requests[i].kind = "grant"
    /\ requests[i].status = "approved" /\ requests[i].admin = "granted"
    /\ missing # {}
    /\ job' = [job EXCEPT ![w] = NewJob("list", i, missing)]
    /\ UNCHANGED <<requests, access, seqs, checked, kills, ghosts>>

LookMissing(w, r) ==
    /\ At(w, "next") /\ Does(w, "list") /\ r \in job[w].left
    /\ IF Of(job[w].request, r) # {} THEN Pass(w, r) ELSE Begin(w, r, "number", {})
    /\ UNCHANGED <<requests, access, seqs, checked, kills, ghosts>>

-----------------------------------------------------------------------------
(* Workers and administrators.                                             *)

\* gunicorn kills a worker that takes too long.
Kill(w) ==
    /\ job[w] # Nothing
    /\ kills < MaxKills
    /\ kills' = kills + 1
    /\ job' = [job EXCEPT ![w] = Nothing]
    /\ cut' = cut \cup LeftUntraced(w)
    /\ UNCHANGED <<requests, access, seqs, checked, byHand, raced>>

\* update_access: the form of record r sets its users.
EditAccessUsers(r, users) ==
    /\ access' = [access EXCEPT ![r] = users]
    /\ byHand' = (byHand \ (Users \X {r})) \cup
          ((users \ {u \in access[r] : <<u, r>> \notin byHand}) \X {r})
    /\ cut' = {p \in cut : p[2] # r \/ p[1] \in users}
    /\ UNCHANGED <<requests, seqs, checked, job, kills, raced>>

-----------------------------------------------------------------------------
Handle(w) ==
    \/ \E i \in DOMAIN requests :
          (\E s \in AdminStatuses : SetAdminStatus(w, i, s)) \/ ListRequest(w, i)
    \/ \E r \in Records : LookGrant(w, r) \/ LookRevoke(w, r) \/ LookMissing(w, r)
    \/ \E k \in DOMAIN seqs : RevokeSequence(w, k)
    \/ AddUser(w) \/ ReadNumber(w) \/ CreateSequence(w)
    \/ ExtendId(w) \/ RemoveUser(w) \/ Kill(w)

Next ==
    \/ \E w \in Submitters, wish \in Wish : CheckSubmission(w, wish)
    \/ \E w \in Submitters : CreateRequest(w)
    \/ \E i \in DOMAIN requests :
          \/ \E chosen \in SUBSET Records : SubmitRevoke(i, chosen)
          \/ \E s \in Statuses : Review(i, s)
          \/ \E wanted \in (SUBSET Records) \ {{}} : EditRequest(i, wanted)
    \/ \E w \in Workers : Handle(w)
    \/ \E r \in Records, users \in SUBSET Users : EditAccessUsers(r, users)

Spec == Init /\ [][Next]_vars

-----------------------------------------------------------------------------
(* What holds.                                                             *)

\* w has let the user in and not yet created the sequence, or is revoking.
InBetween(w) ==
    \/ Does(w, "grant") /\ (At(w, "number") \/ At(w, "create"))
    \/ At(w, "close") \/ At(w, "extend") \/ At(w, "remove")

\* Nobody is let in without a trace: a user in access_users whom no
\* administrator put there by hand has an active sequence, so the access shows
\* up and can be named in a revocation - however grants, re-grants, revocations,
\* pages and edits overlap.  The exceptions are these: a job is at this user and
\* record right now, or was killed or failed there and no page has repaired it.
AccessBehindSequence ==
    \A r \in Records : \A u \in access[r] :
        \/ <<u, r>> \in byHand \cup cut
        \/ Traced(u, r)
        \/ \E w \in Workers : InBetween(w) /\ <<u, r>> = Pair(w)

\* Comment at access_request_view.py:3873-3875: a revocation with ids revokes
\* no other active sequence, and none of another user's.
OnlyNamedRevoked ==
    \A k \in DOMAIN seqs : ~Active(seqs[k]) =>
        LET s == seqs[k]
            j == requests[s.revoke]
        IN  /\ j.user = requests[s.grant].user
            /\ s.record \in j.records
            /\ j.ids = {} \/ Id(s) \in j.ids

\* The id "record.grant.order" that revocations use names one sequence for
\* good, although it is cut from the stored sequence_id and numbers are given
\* out again and again by three handlers, killed ones among them - unless one
\* has read the last number of a grant between another's reading it and using it.
IdsDistinct ==
    ~raced =>
        \A k, m \in DOMAIN seqs :
            seqs[k].grant = seqs[m].grant /\ seqs[k].order = seqs[m].order => k = m

-----------------------------------------------------------------------------
(* What the code says of itself and the model refutes.                     *)

\* access_request_view.py:7443 calls a granted revoke request "Access Revoked":
\* when its processing is through, its user has no access to its records.
RevokedMeansNoAccess ==
    [][\A w \in Workers :
          Does(w, "revoke") /\ job'[w] = Nothing
          => \A r \in requests[job[w].request].records : UserOf(w) \notin access'[r]]_vars
=============================================================================
