------------------------------ MODULE ApiSync ------------------------------
(***************************************************************************)
(* The synchronisation of users of an external API with app_access: the    *)
(* page that runs it, the Celery task that calls the same function, and    *)
(* the pages that stop it or delete what it works on.                      *)
(*                                                                         *)
(* A synchronisation reads the list of users page by page, saves them one  *)
(* by one, removes those it has not seen, and reports in a status row.  It *)
(* reads that row before each user to see whether it has been stopped, and *)
(* writes it back whole.  Nothing keeps two synchronisations apart, not    *)
(* even of one credential, and nothing keeps a list as it is while it is   *)
(* read: a page is what the API has there when it is asked for.            *)
(***************************************************************************)
EXTENDS Integers, FiniteSets

CONSTANTS
    Web,          \* processes that run a synchronisation as a request
    Celery,       \* Celery worker processes
    Credentials,  \* API credentials, each with an API of its own
    Users,        \* user ids, which the APIs may share
    None,         \* nobody, nothing
    Lists,        \* what an API may list
    Listings,     \* what the APIs list at first
    PageLimit,    \* pages read of a list that does not say how many it has
    MaxPages,     \* bound: pages of a list
    MaxRows,      \* bound: status rows created
    MaxEvents     \* bound: failures, killed processes and changes of an API

Processes == Web \cup Celery

\* A list of users gives each one a page; no page before the last is empty.
Paging ==
    {list \in UNION {[listed -> 1..MaxPages] : listed \in SUBSET Users} :
        \A u \in DOMAIN list : \A n \in 1..list[u] : \E v \in DOMAIN list : list[v] = n}

ASSUME SyncAssumption ==
    /\ Web \cap Celery = {}
    /\ None \notin Credentials
    /\ Lists \subseteq Paging
    /\ Listings \subseteq [Credentials -> Lists]
    /\ PageLimit \in Nat \ {0}
    /\ MaxPages \in Nat /\ MaxRows \in Nat /\ MaxEvents \in Nat

VARIABLES
    api,         \* the users each external API lists, with their pages
    credentials, \* the ApiCredential rows
    owner,       \* api_credential of the ApiUser rows, by user_id
    rows,        \* the ApiSyncStatus rows by id, in order of started_at
    last,        \* the last id given
    pc, job,     \* where each process is, and its variables
    dropped,     \* rows that nobody will end any more (ghost)
    events       \* counter for the bound

vars == <<api, credentials, owner, rows, last, pc, job, dropped, events>>

Statuses == {"running", "completed", "error", "stopped"}
StatusRow == [credential : Credentials, status : Statuses, named : BOOLEAN]
Ids == 1..MaxRows

\* `outer` is the row of the Celery task, 0 for a request.  `page` is the last
\* page read out of `pages`, which the API has `counted` or else are the limit;
\* `stale` are the rows chosen for removal.  The rest is ghost: `listed` are the
\* users the API has listed since the start, `whole` says that the reading can
\* miss none of them, `alone` that nothing has disturbed the process.
Job == [credential : Credentials, row : Ids, outer : {0} \cup Ids,
        seen : SUBSET Users, todo : SUBSET Users, stale : SUBSET Users,
        page : Nat, pages : Nat, counted : BOOLEAN,
        listed : SUBSET Users, whole : BOOLEAN, alone : BOOLEAN]
NoJob == None

Steps == {"idle", "login", "fetch", "pages", "check", "user", "remove", "delete", "finish"}

Listed(c) == DOMAIN api[c]
On(c, n) == {u \in Listed(c) : api[c][u] = n}

Working == {p \in Processes : pc[p] # "idle"}
Local == DOMAIN owner
Tied(c) == {u \in Local : owner[u] = c}

\* Beyond the types: the rows of a credential go with it.
TypeOK ==
    /\ api \in [Credentials -> Lists]
    /\ credentials \subseteq Credentials
    /\ Local \subseteq Users /\ owner \in [Local -> credentials \cup {None}]
    /\ last \in 0..MaxRows /\ DOMAIN rows \subseteq 1..last
    /\ rows \in [DOMAIN rows -> StatusRow]
    /\ \A r \in DOMAIN rows : rows[r].credential \in credentials
    /\ pc \in [Processes -> Steps]
    /\ job \in [Processes -> Job \cup {NoJob}]
    /\ \A p \in Processes :
          IF p \in Working THEN job[p] \in Job /\ (job[p].outer = 0 <=> p \in Web)
          ELSE job[p] = NoJob
    /\ dropped \subseteq 1..last
    /\ events \in 0..MaxEvents

-----------------------------------------------------------------------------
(* Rows, jobs.                                                             *)

Without(f, gone) == [x \in DOMAIN f \ gone |-> f[x]]
With(f, x, value) == [y \in DOMAIN f \cup {x} |-> IF y = x THEN value ELSE f[y]]

\* save() of the whole row by one that has it in memory.
SavedAs(r, status) == [rows EXCEPT ![r].status = status]

HasRow(p) == job[p].row \in DOMAIN rows

\* The jobs after something that a synchronisation may notice.
Disturbed(jobs) ==
    [p \in Processes |->
        IF p \in Working THEN [jobs[p] EXCEPT !.alone = FALSE] ELSE jobs[p]]

\* The jobs after users have been deleted: the rows chosen are no more, and a
\* user who comes back has another row.
Forget(jobs, gone) ==
    [p \in Processes |->
        IF p \in Working THEN [jobs[p] EXCEPT !.stale = @ \ gone] ELSE jobs[p]]

Fails == events < MaxEvents /\ events' = events + 1

Goto(p, step) == pc' = [pc EXCEPT ![p] = step] /\ UNCHANGED job

\* The process returns.  The Celery task ends its row as well, as completed if
\* the answer is JSON; a redirect, also after a success, is an error to it.
Return(p, status, outer) ==
    LET ended == IF status = "as it is" THEN rows ELSE SavedAs(job[p].row, status) IN
    /\ pc' = [pc EXCEPT ![p] = "idle"]
    /\ job' = [job EXCEPT ![p] = NoJob]
    /\ rows' = [r \in DOMAIN rows |->
          IF r = job[p].outer
          THEN [rows[r] EXCEPT !.status = outer]
          ELSE ended[r]]

Init ==
    /\ api \in Listings
    /\ credentials = Credentials
    /\ owner = [u \in {} |-> None]
    /\ rows = [r \in {} |-> None]
    /\ last = 0
    /\ pc = [p \in Processes |-> "idle"]
    /\ job = [p \in Processes |-> NoJob]
    /\ dropped = {}
    /\ events = 0

\* Users still listed after a change who keep their place in a list that is
\* being read: none moves to an earlier page, or beyond the last to be read.
KeepsPlaces(p, list) ==
    \A u \in job[p].listed \cap DOMAIN list :
        api[job[p].credential][u] <= list[u] /\ list[u] <= job[p].pages

\* The external API gets users, loses some, or has them on other pages.
ApiChange(c, list) ==
    /\ Fails
    /\ list # api[c]
    /\ api' = [api EXCEPT ![c] = list]
    /\ job' = [p \in Processes |->
          IF p \in Working /\ job[p].credential = c
          THEN [job[p] EXCEPT !.alone = FALSE,
                              !.listed = @ \cap DOMAIN list,
                              !.whole = @ /\ (pc[p] = "pages" => KeepsPlaces(p, list))]
          ELSE job[p]]
    /\ UNCHANGED <<credentials, owner, rows, last, pc, dropped>>

-----------------------------------------------------------------------------
(* The pages.                                                              *)

\* stop_sync: the latest running row, whoever works on it, if anybody does.
StopSync(c) ==
    LET running == {r \in DOMAIN rows :
                       rows[r].credential = c /\ rows[r].status = "running"}
    IN
    /\ \E r \in running :
          /\ \A other \in running : other <= r
          /\ rows' = SavedAs(r, "stopped")
    /\ job' = Disturbed(job)
    /\ UNCHANGED <<api, credentials, owner, last, pc, dropped, events>>

ClearSyncData ==
    /\ Local # {}
    /\ owner' = Without(owner, Local)
    /\ job' = Forget(Disturbed(job), Local)
    /\ UNCHANGED <<api, credentials, rows, last, pc, dropped, events>>

\* Variant: the users keep the credential that is deleted.
DeleteCredentialOnly(c) ==
    /\ c \in credentials
    /\ credentials' = credentials \ {c}
    /\ rows' = Without(rows, {r \in DOMAIN rows : rows[r].credential = c})
    /\ job' = Disturbed(job)
    /\ UNCHANGED <<api, owner, last, pc, dropped, events>>

\* The status rows are deleted with the credential, the users lose it.
DeleteApiCredential(c) ==
    /\ c \in credentials
    /\ credentials' = credentials \ {c}
    /\ rows' = Without(rows, {r \in DOMAIN rows : rows[r].credential = c})
    /\ owner' = [u \in Local |-> IF owner[u] = c THEN None ELSE owner[u]]
    /\ job' = Disturbed(job)
    /\ UNCHANGED <<api, last, pc, dropped, events>>

-----------------------------------------------------------------------------
(* sync_api_users on process p.                                            *)

\* A job that has just begun, with the jobs of others.
Begun(p, c, row, outer) ==
    [Disturbed(job) EXCEPT ![p] =
        [credential |-> c, row |-> row, outer |-> outer,
         seen |-> {}, todo |-> {}, stale |-> {},
         page |-> 0, pages |-> 0, counted |-> FALSE,
         listed |-> Listed(c), whole |-> TRUE, alone |-> Working = {}]]

NewRow(c, named) == [credential |-> c, status |-> "running", named |-> named]

StartRequest(w, c) ==
    /\ pc[w] = "idle" /\ c \in credentials
    /\ last < MaxRows
    /\ last' = last + 1
    /\ rows' = With(rows, last + 1, NewRow(c, TRUE))
    /\ pc' = [pc EXCEPT ![w] = "login"]
    /\ job' = Begun(w, c, last + 1, 0)
    /\ UNCHANGED <<api, credentials, owner, dropped, events>>

\* sync_api_users_task makes a row without a unique_id, which can be done once;
\* from then on it ends here.
StartTask(k, c) ==
    /\ pc[k] = "idle" /\ c \in credentials
    /\ \A r \in DOMAIN rows : rows[r].named
    /\ last + 1 < MaxRows
    /\ last' = last + 2
    /\ rows' = With(With(rows, last + 1, NewRow(c, FALSE)), last + 2, NewRow(c, TRUE))
    /\ pc' = [pc EXCEPT ![k] = "login"]
    /\ job' = Begun(k, c, last + 2, last + 1)
    /\ UNCHANGED <<api, credentials, owner, dropped, events>>

SyncStep == UNCHANGED <<api, credentials, last>>
UsersUnchanged == UNCHANGED owner /\ SyncStep

\* Login refused is an error; a login that raises leaves the row alone.
Login(p) ==
    /\ pc[p] = "login" /\ HasRow(p)
    /\ \/ /\ rows' = SavedAs(job[p].row, "running") /\ Goto(p, "fetch")
          /\ UNCHANGED <<dropped, events>>
       \/ /\ Fails /\ Return(p, "error", "error") /\ UNCHANGED dropped
       \/ /\ Fails /\ Return(p, "as it is", "error")
          /\ dropped' = dropped \cup {job[p].row}
    /\ UsersUnchanged

\* How many pages will be read: as many as the API says it has, or the limit.
PagesToRead(c) ==
    [counted : {TRUE}, pages : {n \in 1..MaxPages :
        /\ \A u \in Listed(c) : api[c][u] <= n
        /\ n = 1 \/ On(c, n) # {}}]
        \cup [counted : {FALSE}, pages : {PageLimit}]

\* The job with the users of page n of the list.
ReadPage(p, n) ==
    LET found == On(job[p].credential, n) IN
    [job[p] EXCEPT !.page = n, !.seen = @ \cup found, !.todo = @ \cup found]

\* Progress is saved, then the first page read, which is needed.  What is wrong
\* with it is left unsaid in the row, unless it is an exception.
FetchFirst(p) ==
    LET c == job[p].credential IN
    /\ pc[p] = "fetch" /\ HasRow(p)
    /\ \/ \E plan \in PagesToRead(c) :
             LET enough == \A u \in Listed(c) : api[c][u] <= plan.pages IN
             /\ job' = [job EXCEPT ![p] =
                   [ReadPage(p, 1) EXCEPT !.pages = plan.pages, !.counted = plan.counted,
                                          !.whole = enough, !.alone = job[p].alone /\ enough]]
             /\ pc' = [pc EXCEPT ![p] = "pages"]
             /\ rows' = SavedAs(job[p].row, "running")
             /\ UNCHANGED <<dropped, events>>
       \/ /\ Fails /\ Return(p, "running", "error")
          /\ dropped' = dropped \cup {job[p].row}
       \/ /\ Fails /\ Return(p, "error", "error") /\ UNCHANGED dropped
    /\ UsersUnchanged

\* Variant: the last page is left out.
AllButOne(p) == job[p].page >= job[p].pages - 1

AllRead(p) == job[p].page >= job[p].pages

\* One page more.  An empty one is the last.  One that cannot be read is passed
\* over, or ends the reading, as a server error does and always when the pages
\* are not counted; only when they are, an exception ends the synchronisation.
FetchPage(p) ==
    LET n == job[p].page + 1
        found == On(job[p].credential, n)
    IN
    /\ pc[p] = "pages" /\ HasRow(p) /\ ~AllRead(p)
    /\ \/ /\ job' = [job EXCEPT ![p] =
                IF found = {} THEN [job[p] EXCEPT !.page = job[p].pages] ELSE ReadPage(p, n)]
          /\ UNCHANGED <<pc, rows, events>>
       \/ /\ Fails
          /\ \E next \in {job[p].pages} \cup {m \in {n} : job[p].counted} :
                job' = [job EXCEPT ![p].page = next, ![p].whole = FALSE, ![p].alone = FALSE]
          /\ UNCHANGED <<pc, rows>>
       \/ /\ job[p].counted
          /\ Fails /\ Return(p, "error", "error")
    /\ UsersUnchanged /\ UNCHANGED dropped

\* Only the number of steps is saved then.
FetchEnds(p) ==
    /\ pc[p] = "pages" /\ HasRow(p) /\ AllRead(p)
    /\ pc' = [pc EXCEPT ![p] = "check"]
    /\ job' = [job EXCEPT ![p].page = 0, ![p].pages = 0, ![p].counted = FALSE]
    /\ UsersUnchanged /\ UNCHANGED <<rows, dropped, events>>

\* Variant: the row is saved with the progress before the stop is looked for.
CheckAfterSave(p) ==
    /\ pc[p] = "check" /\ HasRow(p)
    /\ IF job[p].todo = {} THEN Goto(p, "remove") /\ UNCHANGED rows
       ELSE IF rows[job[p].row].status = "stopped" THEN Return(p, "running", "completed")
       ELSE Goto(p, "user") /\ UNCHANGED rows
    /\ UsersUnchanged /\ UNCHANGED <<dropped, events>>

\* The head of the loop over the users.
CheckStopped(p) ==
    /\ pc[p] = "check" /\ HasRow(p)
    /\ IF job[p].todo = {} THEN Goto(p, "remove") /\ UNCHANGED rows
       ELSE IF rows[job[p].row].status = "stopped" THEN Return(p, "as it is", "completed")
       ELSE Goto(p, "user") /\ UNCHANGED rows
    /\ UsersUnchanged /\ UNCHANGED <<dropped, events>>

\* Variant: only a new user is tied to the credential.
ProcessNewUser(p) ==
    /\ pc[p] = "user" /\ HasRow(p)
    /\ rows' = SavedAs(job[p].row, "running")
    /\ pc' = [pc EXCEPT ![p] = "check"]
    /\ \E u \in job[p].todo :
          /\ owner' = IF u \in Local THEN owner ELSE With(owner, u, job[p].credential)
          /\ job' = [job EXCEPT ![p].todo = @ \ {u}]
    /\ SyncStep /\ UNCHANGED <<dropped, events>>

\* Variant: a user who cannot be saved is tried again.
ProcessUserAgain(p) ==
    /\ pc[p] = "user" /\ HasRow(p)
    /\ rows' = SavedAs(job[p].row, "running")
    /\ pc' = [pc EXCEPT ![p] = "check"]
    /\ \E u \in job[p].todo :
          \/ /\ owner' = With(owner, u, job[p].credential)
             /\ job' = [job EXCEPT ![p].todo = @ \ {u}]
          \/ /\ job' = [job EXCEPT ![p].alone = FALSE]
             /\ UNCHANGED owner
    /\ SyncStep /\ UNCHANGED <<dropped, events>>

\* Progress is saved, then one user, who changes hands if another credential
\* had him.  A user with data missing, or that raises, is passed over.
ProcessUser(p) ==
    /\ pc[p] = "user" /\ HasRow(p)
    /\ rows' = SavedAs(job[p].row, "running")
    /\ pc' = [pc EXCEPT ![p] = "check"]
    /\ \E u \in job[p].todo :
          \/ /\ owner' = With(owner, u, job[p].credential)
             /\ job' = [job EXCEPT ![p].todo = @ \ {u}]
          \/ /\ job' = [job EXCEPT ![p].todo = @ \ {u}, ![p].alone = FALSE]
             /\ UNCHANGED owner
    /\ SyncStep /\ UNCHANGED <<dropped, events>>

\* Users of this credential who are not in the list, processed or not.
Stale(p) == Tied(job[p].credential) \ job[p].seen

CollectStale(p) ==
    /\ pc[p] = "remove" /\ HasRow(p)
    /\ pc' = [pc EXCEPT ![p] = "delete"]
    /\ job' = [job EXCEPT ![p].stale = Stale(p), ![p].seen = {}]
    /\ UsersUnchanged /\ UNCHANGED <<rows, dropped, events>>

\* The rows chosen are deleted by their primary keys, whoever has them by now.
DeleteStale(p) ==
    /\ pc[p] = "delete" /\ HasRow(p)
    /\ owner' = Without(owner, job[p].stale)
    /\ job' = Forget(job, job[p].stale)
    /\ pc' = [pc EXCEPT ![p] = "finish"]
    /\ SyncStep /\ UNCHANGED <<rows, dropped, events>>

Complete(p) ==
    /\ pc[p] = "finish" /\ HasRow(p)
    /\ Return(p, "completed", "error")
    /\ UsersUnchanged /\ UNCHANGED <<dropped, events>>

\* An exception after the login.
FailSync(p) ==
    /\ pc[p] \in {"check", "remove", "delete", "finish"} /\ HasRow(p)
    /\ Fails
    /\ Return(p, "error", "error")
    /\ UsersUnchanged /\ UNCHANGED dropped

\* Without its row a synchronisation ends with its next statement on it.
LoseRow(p) ==
    /\ p \in Working /\ ~HasRow(p)
    /\ Return(p, "as it is", "error")
    /\ UsersUnchanged /\ UNCHANGED <<dropped, events>>

\* The web server's time limit, or a lost worker.
Kill(p) ==
    /\ p \in Working
    /\ Fails
    /\ pc' = [pc EXCEPT ![p] = "idle"]
    /\ job' = [job EXCEPT ![p] = NoJob]
    /\ dropped' = dropped \cup ({job[p].row, job[p].outer} \ {0})
    /\ UNCHANGED rows /\ UsersUnchanged

-----------------------------------------------------------------------------
Work(p) ==
    \/ Login(p) \/ FetchFirst(p) \/ FetchPage(p) \/ FetchEnds(p)
    \/ CheckStopped(p) \/ ProcessUser(p)
    \/ CollectStale(p) \/ DeleteStale(p) \/ Complete(p)
    \/ FailSync(p) \/ LoseRow(p)

Next ==
    \/ \E c \in Credentials :
          \/ \E list \in Lists : ApiChange(c, list)
          \/ StopSync(c) \/ DeleteApiCredential(c)
          \/ \E w \in Web : StartRequest(w, c)
          \/ \E k \in Celery : StartTask(k, c)
    \/ ClearSyncData
    \/ \E p \in Processes : Work(p) \/ Kill(p)
    \/ Working = {} /\ UNCHANGED vars

Spec == Init /\ [][Next]_vars

\* A process goes on with what it has begun, and requests have timeouts.
FairSpec == Spec /\ \A p \in Processes : WF_vars(Work(p))

-----------------------------------------------------------------------------
\* A synchronisation that nothing disturbs puts everything right: when it has
\* removed the stale users, those tied to its credential are exactly those the
\* API lists, whatever synchronisations that overlapped, lost pages, failed,
\* were stopped or killed, or took users of another credential, have left.
UndisturbedSyncIsExact ==
    \A p \in Working :
        pc[p] = "finish" /\ job[p].alone => Tied(job[p].credential) = Listed(job[p].credential)

\* A synchronisation that has read every page there was, of a list in which no
\* user has moved to an earlier page or past the last one meanwhile, removes
\* only users whom the API has not listed at some time since it began, also
\* beside others of its own credential and though the list it works with may
\* long be out of date, and the rows it removes have been taken over.
ListedUsersStay ==
    [][\A p \in Working :
          pc[p] = "delete" /\ pc'[p] = "finish" /\ job[p].whole
              => (Local \ DOMAIN owner') \cap job[p].listed = {}]_vars

\* A row says "running" only as long as a process works on it, unless that was
\* killed, or could not log in or list the users: no stop, late or early, leaves
\* a row "running" behind it.
RunningRowHasSync ==
    \A r \in DOMAIN rows : rows[r].status = "running" =>
        r \in dropped \/ \E p \in Working : r \in {job[p].row, job[p].outer}

\* Every row that is running is ended, deleted or dropped: stops that are
\* overwritten, users that fail and rows that vanish keep none going.
EveryRowEnds ==
    \A r \in Ids :
        (r \in DOMAIN rows /\ rows[r].status = "running")
            ~> (r \in dropped \/ (r \in DOMAIN rows => rows[r].status # "running"))

\* Comment at api_view.py:3117 "Users removed from the external API: delete
\* local rows tied to this credential only": a user whom the API has listed
\* since the synchronisation began is not removed.
OnlyUnlistedRemoved ==
    [][\A p \in Working :
          pc[p] = "delete" /\ pc'[p] = "finish"
              => (Local \ DOMAIN owner') \cap job[p].listed = {}]_vars
=============================================================================
