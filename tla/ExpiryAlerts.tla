---------------------------- MODULE ExpiryAlerts ----------------------------
(***************************************************************************)
(* The daily mails about certificates that expire                          *)
(* (services/expiry_alert_service.py): one certificate on its way to its   *)
(* last day, in quarters of a day.  The task runs a day after it ran last, *)
(* or later when the loop is held up; a mail may fail.                     *)
(***************************************************************************)
EXTENDS Integers, FiniteSets

CONSTANTS FirstQuarters,  \* how long the certificate lasts at first, in quarters
          AlertDays,      \* values alert_days may be set to
          Late,           \* how many quarters a run may be late (a bound)
          MaxMailFaults   \* how many mails fail (a bound)

DefaultDays == {30, 14, 7, 1}

(* The certificate is known for eight days, and the runs that may fail or  *)
(* be late do not use up the week of the last window.                      *)
ASSUME AlertAssumption ==
  /\ FirstQuarters \subseteq Nat /\ \A n \in FirstQuarters : n >= 32
  /\ AlertDays \subseteq SUBSET Nat
  /\ Late \in Nat /\ MaxMailFaults \in Nat
  /\ (MaxMailFaults + 1) * (4 + Late) <= 27

VARIABLES left,      \* quarters of a day until valid_to
          since,     \* quarters since the task ran last
          alertDays, \* alert_days of the settings, kept in memory only
          alerting,  \* enabled in the settings, and mail is configured
          revoked,
          include,   \* include_revoked of the settings
          recipients, \* the settings name recipients
          sender,    \* smtp_from of the mail settings: "unset", "empty" or "set"
          checks,    \* runs of check_and_send_alerts for the present quarter
          mails,     \* mails sent for the present quarter
          warned,    \* a mail was sent
          faults,    \* how many mails failed
          changed    \* the settings were changed or the process restarted, which
                     \* happens once (a bound)

alertVars == <<left, since, alertDays, alerting, revoked, include, recipients, sender,
               checks, mails, warned, faults, changed>>

(* The recipients and the sender are what they were set to before the      *)
(* certificate was issued.                                                 *)
AlertInit ==
  /\ left \in FirstQuarters /\ since \in 0 .. 4
  /\ alertDays = DefaultDays /\ alerting = TRUE /\ revoked = FALSE /\ include = FALSE
  /\ recipients \in BOOLEAN /\ sender \in {"unset", "empty", "set"}
  /\ checks = 0 /\ mails = 0 /\ warned = FALSE /\ faults = 0 /\ changed = FALSE

DaysLeft == left \div 4

(* The certificates asked for with days = d + 1. *)
get_expiring_certificates(d) == (revoked => include) /\ left > 0 /\ left <= 4 * (d + 1)

(* Mutated: a mail on the very day only. *)
InWindowOfDay(d) == DaysLeft = d

InWindow(d) == DaysLeft <= d /\ DaysLeft > (IF d > 7 THEN d - 7 ELSE 0)

(* Mutated: a certificate of two windows is mailed about twice. *)
MailsOfRepeating(ok) ==
  IF ok THEN Cardinality({d \in alertDays : get_expiring_certificates(d) /\ InWindow(d)}) ELSE 0

(* One mail for the certificate, whichever windows it is in; a mail that   *)
(* failed is tried again in the next window of the same run.               *)
MailsOf(ok) ==
  IF ok /\ \E d \in alertDays : get_expiring_certificates(d) /\ InWindow(d) THEN 1 ELSE 0

(* A mail goes out under one setting only.  With a sender the run ends in  *)
(* an AttributeError at the first certificate of a window, before anything *)
(* is sent: it reads admin_email, which SMTPConfig lacks.  Without one,    *)
(* the recipients are those of the settings, and the library takes an      *)
(* empty sender but not the None of a row where it was never set.          *)
Mailable == sender = "empty" /\ recipients

check_and_send_alerts(ok) ==
  LET wanted == alerting /\ Mailable /\ MailsOf(TRUE) > 0
  IN /\ ~ok => wanted /\ faults < MaxMailFaults
     /\ faults' = IF ok THEN faults ELSE faults + 1
     /\ mails' = mails + (IF alerting /\ Mailable THEN MailsOf(ok) ELSE 0)
     /\ warned' = (warned \/ (ok /\ wanted))
     /\ checks' = checks + 1

(* The task of the scheduler. *)
scheduled_expiry_check ==
  /\ since >= 4 /\ since' = 0
  /\ \E ok \in BOOLEAN : check_and_send_alerts(ok)
  /\ UNCHANGED <<left, alertDays, alerting, revoked, include, recipients, sender, changed>>

(* The button. *)
trigger_expiry_check ==
  /\ checks < 2
  /\ \E ok \in BOOLEAN : check_and_send_alerts(ok)
  /\ UNCHANGED <<left, since, alertDays, alerting, revoked, include, recipients, sender, changed>>

update_settings(days, on, withRevoked, named) ==
  /\ ~changed /\ changed' = TRUE
  /\ alertDays' = days /\ alerting' = on /\ include' = withRevoked /\ recipients' = named
  /\ UNCHANGED <<left, since, revoked, sender, checks, mails, warned, faults>>

(* The sender of mails. *)
update_email_settings(from) ==
  /\ ~changed /\ changed' = TRUE
  /\ sender' = from
  /\ UNCHANGED <<left, since, alertDays, alerting, revoked, include, recipients, checks, mails, warned, faults>>

(* The settings are lost, and the task runs soon. *)
RestartAlerts ==
  /\ ~changed /\ changed' = TRUE
  /\ alertDays' = DefaultDays /\ alerting' = TRUE /\ include' = FALSE /\ recipients' = FALSE /\ since' = 4
  /\ UNCHANGED <<left, revoked, sender, checks, mails, warned, faults>>

Revoke ==
  /\ revoked' = TRUE /\ ~revoked
  /\ UNCHANGED <<left, since, alertDays, alerting, include, recipients, sender, checks, mails, warned, faults, changed>>

(* A quarter of a day passes; a run is at most so late. *)
Quarter ==
  /\ left > 0 /\ left' = left - 1
  /\ since < 4 + Late /\ since' = since + 1
  /\ checks' = 0 /\ mails' = 0
  /\ UNCHANGED <<alertDays, alerting, revoked, include, recipients, sender, warned, faults, changed>>

AlertNext ==
  \/ scheduled_expiry_check \/ trigger_expiry_check \/ RestartAlerts \/ Revoke \/ Quarter
  \/ \E days \in AlertDays, on, withRevoked, named \in BOOLEAN : update_settings(days, on, withRevoked, named)
  \/ \E from \in {"empty", "set"} : update_email_settings(from)

AlertSpec == AlertInit /\ [][AlertNext]_alertVars

----------------------------------------------------------------------------
(* Where a mail can go out at all, a certificate that was known for eight  *)
(* days or more is mailed about before it expires, with the alert days as  *)
(* shipped, though runs are late and four mails fail: the last window is a *)
(* week wide (check_and_send_alerts).                                      *)
WarnedBeforeExpiry == left = 0 /\ ~changed /\ ~revoked /\ Mailable => warned

(* No run mails twice about the same certificate, though the windows of    *)
(* alert_days overlap (certificates_alerted).                              *)
OneMailPerRun == mails <= checks

(* There is a warning before a certificate expires, and one mail a run     *)
(* (check_and_send_alerts).                                                *)
WarnedInTime == WarnedBeforeExpiry /\ OneMailPerRun
====
