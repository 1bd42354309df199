------------------------- MODULE MCKeyCertReminders -------------------------
(* Instance of KeyCertReminders: a reminder two days before the expiry, the   *)
(* same after a renewal, and a reminder for a date.                           *)
EXTENDS KeyCertReminderLife

Choice(e, type, value) ==
    [expiry |-> e, reminder |-> [type |-> type, value |-> value]]

ChoicesMade == {Choice(4, "days", 2), Choice(6, "days", 2), Choice(6, "date", 3)}
=============================================================================
