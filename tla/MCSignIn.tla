------------------------------ MODULE MCSignIn ------------------------------
(* Instances of SignIn: each behaviour serves one of the workloads.         *)
EXTENDS SignIn

MCRoles == [p \in {"ana", "sue", "max", "eve"} |->
              CASE p = "ana" -> "FRAUD_ANALYST" [] p = "sue" -> "SENIOR_FRAUD_ANALYST"
                [] OTHER -> "FRAUD_MANAGER"]

Do(op, n, by, on, val, facts) ==
  [op |-> op, n |-> n, by |-> by, on |-> on, val |-> val, facts |-> facts]
Page(op, n, by)     == Do(op, n, by, 1, "", {})
Login(n, by, pass)  == Do("login", n, by, pass, "", {})
Code(n, by)         == Page("code", n, by)
Flow(op, n, facts)  == Do(op, n, "ann", 0, "", facts)
Mode(n, val)        == Do("mode", n, "max", 0, val, {})
Desk(op, n, by, on) == Do(op, n, by, on, "", {})
Case(n, by, val)    == Do("move", n, by, 1, val, {})

Rule(name, fact, score) ==
  [name |-> name, version |-> 1, fact |-> fact, score |-> score, ops |-> {},
   lifecycle |-> "ACTIVE", enabled |-> TRUE, maker |-> "eve", approver |-> "max",
   author |-> "eve"]
Draft(name) == [Rule(name, "", 45) EXCEPT !.lifecycle = "DRAFT", !.enabled = FALSE, !.approver = None]

Load(jobs, rs, m) == [jobs |-> jobs, rules |-> rs, mode |-> m]

Device == Rule("device", "NEW_DEVICE", 40)
Failed == Rule("failed", "FAILED_LOGIN_COUNT_24H", 45)
Always(n) == Rule("always", "", n)
Fast   == Rule("fast", "TRANSFER_VELOCITY_10MIN", 70)
Burst  == Rule("burst", "CARD_RAPID_SEQUENCE", 65)

Lockouts == Load({Login(1, "b1", 0), Login(2, "b2", 0), Login(3, "b1", 0), Login(4, "b1", 1)},
                 <<Device, Failed>>, "ENFORCEMENT")
Challenged == Load({Login(1, "b1", 1), Code(1, "b1"), Code(2, "b1"), Login(2, "b1", 1), Mode(1, "SHADOW")},
                   <<Device>>, "ENFORCEMENT")
Authenticators == Load({Login(1, "b1", 1), Page("totp_start", 1, "b1"), Page("totp_confirm", 1, "b1"),
                   Login(1, "b2", 1), Code(1, "b2"), Page("mfa_disable", 1, "b1")}, <<>>, "SHADOW")
CodesForMfa == Load({Login(1, "b1", 1), Page("mfa_start", 1, "b1"), Page("mfa_confirm", 1, "b1"),
                     Login(1, "b2", 1), Code(1, "b2")}, <<>>, "CHALLENGE_ONLY")
Passwords == Load({Login(1, "b1", 1), Page("password", 1, "b1"), Mode(1, "ENFORCEMENT"),
                   Do("password", 2, "b1", 1, "code", {}), Do("password", 3, "b1", 2, "code", {})},
                  <<Always(65)>>, "SHADOW")
TwoChange == Load({Login(1, "b1", 1), Login(1, "b2", 1), Page("password", 1, "b1"),
                   Page("password", 2, "b2")}, <<>>, "SHADOW")
Pages == Load({Login(1, "b1", 1), Login(1, "b2", 1), Page("trust", 1, "b1"), Page("untrust", 1, "b2"),
               Page("revoke", 1, "b1"), Do("sessions", 1, "b2", 0, "all", {}), Page("logout", 1, "b1"),
               Do("prefer", 1, "b2", 0, "off", {})}, <<>>, "SHADOW")
Flows == Load({Flow("TRANSFER", 1, {"TRANSFER_VELOCITY_10MIN"}), Flow("TRANSFER", 2, {}),
               Flow("CARD_PURCHASE", 1, {"CARD_RAPID_SEQUENCE"}), Flow("BILL_PAYMENT", 1, {}),
               Mode(1, "CHALLENGE_ONLY"), Desk("disable", 1, "max", 3)},
              <<Fast, Burst, Always(35)>>, "ENFORCEMENT")
Observed == Load({Flow("ACCOUNT_OPENING", 1, {}), Flow("MANAGER_OPERATION", 1, {}),
                  Flow("TRANSFER", 1, {}), Flow("TRANSFER", 2, {}), Desk("activate", 1, "max", 2), Mode(1, "SHADOW")},
                 <<Always(35), [Always(50) EXCEPT !.name = "more", !.lifecycle = "APPROVED", !.enabled = FALSE]>>, "CHALLENGE_ONLY")
Rules == Load({Desk("approve", 1, "max", 1), Desk("approve", 2, "eve", 1), Desk("activate", 1, "max", 1),
               Desk("disable", 1, "eve", 1), Desk("version", 1, "eve", 1), Desk("version", 2, "max", 1), Do("draft", 1, "eve", 50, "payee", {}),
               Desk("approve", 3, "eve", 2)},
              <<Draft("device")>>, "SHADOW")
Cases == Load({Flow("TRANSFER", 1, {}), Desk("alert", 1, "", 1), Desk("alert", 2, "", 1),
               Desk("acknowledge", 1, "ana", 1), Desk("open", 1, "ana", 1), Desk("claim", 1, "ana", 1),
               Case(1, "ana", "INVESTIGATING"), Case(2, "sue", "CLOSED"), Case(3, "sue", "CONFIRMED_FRAUD")},
              <<Always(90)>>, "ENFORCEMENT")

MCWorkloads == {Lockouts, Challenged, Authenticators, CodesForMfa, Passwords, TwoChange, Pages,
                Flows, Observed, Rules, Cases}
MCTransfers == {Flows}
=============================================================================
