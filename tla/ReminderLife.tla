---------------------------- MODULE ReminderLife ----------------------------
(***************************************************************************)
(* What the reminders of a certificate go through, whoever works on them:  *)
(* pages create and withdraw them, a sender mails one at a time, and       *)
(* nobody touches the one that is being mailed.  KeyCertReminders, with    *)
(* its queues, locks and transactions, is to look like this.               *)
(***************************************************************************)
EXTENDS Naturals

CONSTANT Ids

VARIABLES
    life,    \* what has become of each reminder
    mails    \* mails sent for it, less those taken back by a rollback

vars == <<life, mails>>

Lives == {"none", "waiting", "mailing", "sent", "gone"}

Init ==
    /\ life \in [Ids -> {"none", "waiting", "gone"}]
    /\ mails = [i \in Ids |-> 0]

\* A page creates a reminder, withdraws a waiting one, or forgets one that was
\* sent.  It brings none back.
PageMoves == {<<"none", "waiting">>, <<"waiting", "gone">>, <<"sent", "gone">>}

Arrange ==
    /\ life' \in [Ids -> Lives]
    /\ \A i \in Ids : life'[i] = life[i] \/ <<life[i], life'[i]>> \in PageMoves
    /\ UNCHANGED mails

Begin(i) ==
    /\ life[i] = "waiting"
    /\ \A j \in Ids : life[j] # "mailing"
    /\ life' = [life EXCEPT ![i] = "mailing"]
    /\ UNCHANGED mails

Mail(i) ==
    /\ life[i] = "mailing" /\ mails[i] = 0
    /\ mails' = [mails EXCEPT ![i] = 1]
    /\ UNCHANGED life

Finish(i) ==
    /\ life[i] = "mailing" /\ mails[i] = 1
    /\ life' = [life EXCEPT ![i] = "sent"]
    /\ UNCHANGED mails

\* The sender fails or is killed: as if it had not begun.
GiveUp(i) ==
    /\ life[i] = "mailing"
    /\ life' = [life EXCEPT ![i] = "waiting"]
    /\ mails' = [mails EXCEPT ![i] = 0]

Next ==
    \/ Arrange
    \/ \E i \in Ids : Begin(i) \/ Mail(i) \/ Finish(i) \/ GiveUp(i)

Spec == Init /\ [][Next]_vars
=============================================================================
