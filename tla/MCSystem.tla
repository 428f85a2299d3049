------------------------------ MODULE MCSystem ------------------------------
(* Five parts of the program that share no tables: the ACME client, SCEP   *)
(* enrollment, the audit log, the mails about expiry and the nonces of the *)
(* ACME server.  A behaviour runs one of them; the others stay as they     *)
(* began.                                                                  *)
(*                                                                         *)
(* The ACME client has two orders and two workers; dev.example.com and     *)
(* example.com are both hosted, and ample.com is a zone whose name ends    *)
(* example.com as text.                                                    *)
EXTENDS AcmeClient, ScepServer, AuditLog, ExpiryAlerts, AcmeJws, TLC

VARIABLE part

SystemInit ==
  /\ ClientInit /\ ScepInit /\ AuditInit /\ AlertInit /\ JwsInit
  /\ part \in {"client", "scep", "audit", "alerts", "nonces"}
  /\ part # "alerts" => /\ left \in {x \in FirstQuarters : \A y \in FirstQuarters : x <= y} /\ since = 0
                        /\ sender = "set" /\ recipients
  /\ part # "client" => provider = ManualDnsProvider

(* The names of SCEP transactions and certificates are interchangeable:    *)
(* they are used in order.                                                 *)
Used == {t \in Transactions : request[t].status # "absent"}
Signed == {r.cert : r \in recorded}
InOrder == Used = 1 .. Cardinality(Used) /\ Signed = 1 .. Cardinality(Signed)

SystemNext ==
  /\ UNCHANGED part
  /\ \/ part = "client" /\ ClientNext /\ UNCHANGED <<scepVars, auditVars, alertVars, jwsVars>>
     \/ part = "scep" /\ ScepNext /\ InOrder' /\ UNCHANGED <<clientVars, auditVars, alertVars, jwsVars>>
     \/ part = "audit" /\ AuditNext /\ UNCHANGED <<clientVars, scepVars, alertVars, jwsVars>>
     \/ part = "alerts" /\ AlertNext /\ UNCHANGED <<clientVars, scepVars, auditVars, jwsVars>>
     \/ part = "nonces" /\ JwsNext /\ UNCHANGED <<clientVars, scepVars, auditVars, alertVars>>

SystemSpec ==
  SystemInit /\ [][SystemNext]_<<clientVars, scepVars, auditVars, alertVars, jwsVars, part>>

----------------------------------------------------------------------------
(* The rows of all parts have their types. *)
SystemTypeOK == ClientTypeOK /\ ScepTypeOK /\ AuditTypeOK

----------------------------------------------------------------------------
ExampleCom == <<"example", "com">>
DevExampleCom == <<"dev", "example", "com">>
AmpleCom == <<"ample", "com">>

MCHosted == <<AmpleCom, ExampleCom, DevExampleCom>>
MCLookAlike == {<<ExampleCom, AmpleCom>>, <<DevExampleCom, AmpleCom>>}
MCOtherName == <<"mail", "example", "com">>
MCRequests == [o1 |-> {<<ExampleCom, FALSE>>},
               o2 |-> {<<ExampleCom, TRUE>>, <<DevExampleCom, FALSE>>}]
MCCrowded == [cloudflare |-> 1, gcloud |-> 1, desec |-> 1, namecheap |-> 1]
MCAlertDays == {{1}, {60, 30}}

SystemSymmetry == Permutations(Worker) \cup Permutations(Contents)
====
