-------------------------------- MODULE Acl --------------------------------
(***************************************************************************)
(* Access control (src/src/acl.cpp): ROLE defines a role, GRANT gives it a *)
(* permission, CHECK asks for one and leaves its verdict in a list that is *)
(* cut back when it grows too long.                                        *)
(*                                                                         *)
(* Names are abstracted to values, one of them refused by valid_name.  The *)
(* permissions of a role, sorted and without repetition in the code, are a *)
(* set.  CHECK does not look whether the name it is given is valid.        *)
(***************************************************************************)
EXTENDS Naturals, Sequences, Common

CONSTANTS
    Roles,          \* valid names of roles
    Permissions,    \* valid names of permissions
    BadName,        \* a name valid_name refuses
    CheckLimit,     \* most verdicts kept (the code: 64)
    CheckTrim       \* verdicts dropped beyond that (the code: 16)

ASSUME AclConstants ==
    /\ BadName \notin Roles \cup Permissions
    /\ CheckLimit \in Nat
    /\ CheckTrim \in 1..CheckLimit

VARIABLES
    granted,        \* AclState.roles: name |-> permissions
    checks          \* AclState.checks

aclVars == <<granted, checks>>

Verdict == [role : Roles, permission : Permissions \cup {BadName},
            allow : BOOLEAN]

AclInit ==
    /\ granted = [role \in {} |-> {}]
    /\ checks = <<>>

-----------------------------------------------------------------------------
(* ROLE name *)

\* Mutant: a role may be defined again.
DefineCheckRepeats(role) == IF role = BadName THEN "limit" ELSE "ok"

DefineCheck(role) ==
    IF role = BadName THEN "limit"
    ELSE IF role \in DOMAIN granted THEN "invalid_state" ELSE "ok"

DefineRole(role) ==
    /\ status' = DefineCheck(role)
    /\ granted' = IF status' = "ok"
                  THEN [r \in DOMAIN granted \cup {role} |->
                           IF r = role THEN {} ELSE granted[r]]
                  ELSE granted
    /\ UNCHANGED checks

-----------------------------------------------------------------------------
(* GRANT role permission *)

GrantCheck(role, permission) ==
    IF permission = BadName THEN "limit"
    ELSE IF role \notin DOMAIN granted THEN "not_found"
    ELSE IF permission \in granted[role] THEN "invalid_state" ELSE "ok"

GrantRole(role, permission) ==
    /\ status' = GrantCheck(role, permission)
    /\ granted' = IF status' = "ok"
                  THEN [granted EXCEPT ![role] = @ \cup {permission}]
                  ELSE granted
    /\ UNCHANGED checks

-----------------------------------------------------------------------------
(* CHECK role permission *)

Trimmed(list) ==
    IF Len(list) > CheckLimit THEN SubSeq(list, CheckTrim + 1, Len(list)) ELSE list

CheckPermission(role, permission) ==
    LET verdict == [role |-> role, permission |-> permission,
                    allow |-> permission \in granted[role]]
    IN  /\ status' = IF role \in DOMAIN granted THEN "ok" ELSE "not_found"
        /\ checks' = IF status' = "ok" THEN Trimmed(Append(checks, verdict))
                     ELSE checks
        /\ UNCHANGED granted

-----------------------------------------------------------------------------
AclNext ==
    \/ \E role \in Roles \cup {BadName} : DefineRole(role)
    \/ \E role \in Roles, permission \in Permissions \cup {BadName} :
          GrantRole(role, permission) \/ CheckPermission(role, permission)

-----------------------------------------------------------------------------
AclTypeOK ==
    /\ DOMAIN granted \subseteq Roles
    /\ \A role \in DOMAIN granted : granted[role] \subseteq Permissions
    /\ checks \in Seq(Verdict)
    /\ Len(checks) <= CheckLimit

(* An allow that is still in the list is still right: whatever was defined  *)
(* or granted since, no permission was taken away.  (A deny may be out of   *)
(* date.)  For one role and permission the verdicts never go back from      *)
(* allow to deny.                                                           *)
AllowsHold ==
    /\ \A i \in DOMAIN checks : checks[i].allow =>
          checks[i].permission \in granted[checks[i].role]
    /\ \A i, j \in DOMAIN checks :
          /\ i < j
          /\ checks[i].role = checks[j].role
          /\ checks[i].permission = checks[j].permission
          => (checks[i].allow => checks[j].allow)
=============================================================================
