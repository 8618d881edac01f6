------------------------------ MODULE Accounts ------------------------------
(***************************************************************************)
(* Who may use the console: people, the roles they have, and what a role   *)
(* allows.  A request is judged by what it reads and then writes, in       *)
(* statements of its own; others come in between.  One client is enough:   *)
(* superadmins belong to none, everybody else belongs to this one.         *)
(***************************************************************************)
EXTENDS Integers, FiniteSets

CONSTANTS
  People, Root,       \* Root: the superadmin of the installation
  Roles, Super,       \* the roles users_role_chk lets a person have; the built-in
  MaxRequests,        \* bound: requests under way at once
  Unborn, Gone        \* no account yet, and none any more; no role

Permissions == {"users.manage", "tenants.manage"}
Definitions == [all : BOOLEAN, may : SUBSET Permissions]
Everything == [all |-> TRUE, may |-> Permissions]
Persons == [role : Roles, active : BOOLEAN]

ASSUME AccountsAssumption ==
  /\ Root \in People /\ Super \in Roles
  /\ Unborn # Gone /\ Gone \notin Definitions
  /\ {Unborn, Gone} \cap Persons = {}

VARIABLES
  person,     \* users: their role, and whether they are active
  role,       \* roles and role_permissions
  suspended,  \* tenants.status of the client
  under,      \* the requests that were let in and have not written yet
  together,   \* history: two that remove a superadmin were let in at once
  switched    \* history: a superadmin was switched off

avars == <<person, role, suspended, under, together, switched>>

AccountsInit ==
  /\ person = [p \in People |-> IF p = Root THEN [role |-> Super, active |-> TRUE] ELSE Unborn]
  /\ role = [r \in Roles |-> IF r = Super THEN Everything ELSE [all |-> FALSE, may |-> {}]]
  /\ suspended = FALSE /\ under = {} /\ together = FALSE /\ switched = FALSE

Exists(p) == person[p] \notin {Unborn, Gone}
Is(p, r) == Exists(p) /\ person[p].role = r
ActiveSuperadmins == {p \in People : Is(p, Super) /\ person[p].active}

-----------------------------------------------------------------------------
(* What a request is let in by: current_user and its guards. *)

SignedIn(p) == Exists(p) /\ person[p].active /\ (suspended => Is(p, Super))
Held(p) == role[person[p].role]
Can(p, permission) == SignedIn(p) /\ permission \in Held(p).may
SeesAll(p) == SignedIn(p) /\ Held(p).all

Reaches(p, who) == Exists(who) /\ (SeesAll(p) \/ ~Is(who, Super))

MayGive(p, r) ==
  /\ role[r] # Gone
  /\ SeesAll(p) \/ (~role[r].all /\ role[r].may \subseteq Held(p).may)

(* Mutant of OthersRemain: the one to be removed is counted.               *)
SomeRemain(who) == ActiveSuperadmins # {}

OthersRemain(who) == ActiveSuperadmins \ {who} # {}

(* create_user, update_user and delete_user *)
LetIn(q) ==
  CASE q.to = "create" -> /\ Can(q.by, "users.manage") /\ MayGive(q.by, q.role)
                          /\ person[q.who] = Unborn
    [] q.to = "assign" -> /\ Can(q.by, "users.manage") /\ Reaches(q.by, q.who)
                          /\ MayGive(q.by, q.role)
                          /\ (q.role = Super) = Is(q.who, Super)
                          /\ q.who = q.by => Is(q.by, q.role)
    [] q.to = "switch off" -> /\ Can(q.by, "users.manage") /\ Reaches(q.by, q.who)
                              /\ q.who # q.by
    [] q.to = "switch on" -> Can(q.by, "users.manage") /\ Reaches(q.by, q.who)
    [] q.to = "remove" -> /\ Can(q.by, "users.manage") /\ Reaches(q.by, q.who)
                          /\ q.who # q.by
                          /\ Is(q.who, Super) => OthersRemain(q.who)

(* create_role, update_role and delete_role; update_tenant *)
LetInRole(q) ==
  CASE q.to = "define" -> SeesAll(q.by) /\ q.role # Super /\ role[q.role] = Gone
    [] q.to = "redefine" -> /\ SeesAll(q.by) /\ q.role # Super /\ role[q.role] # Gone
                            /\ Is(q.by, q.role) => "users.manage" \in q.as.may
    [] q.to = "drop" -> /\ SeesAll(q.by) /\ q.role # Super /\ role[q.role] # Gone
                        /\ \A p \in People : ~Is(p, q.role)

PersonRequests ==
  [to : {"create", "assign"}, by : People, who : People, role : Roles]
    \cup [to : {"switch off", "switch on", "remove"}, by : People, who : People]
RoleRequests ==
  [to : {"define", "redefine"}, by : People, role : Roles, as : Definitions]
    \cup [to : {"drop"}, by : People, role : Roles]

Admit ==
  /\ Cardinality(under) < MaxRequests
  /\ \/ \E q \in PersonRequests : LetIn(q) /\ under' = under \cup {q}
     \/ \E q \in RoleRequests : LetInRole(q) /\ under' = under \cup {q}
  /\ UNCHANGED <<person, role, suspended>>

-----------------------------------------------------------------------------
(* What a request writes. *)

(* What the trigger, the constraints of users and the foreign key of its   *)
(* role hold a write to, whatever the request saw.                         *)
Storable(r) == role[r] # Gone

Deletable(r) == \A p \in People : ~Is(p, r)

WritePerson(q) ==
  /\ person' =
       CASE q.to = "create" /\ person[q.who] = Unborn /\ Storable(q.role)
              -> [person EXCEPT ![q.who] = [role |-> q.role, active |-> TRUE]]
         [] q.to = "assign" /\ Exists(q.who) /\ Storable(q.role)
              -> [person EXCEPT ![q.who].role = q.role]
         [] q.to \in {"switch off", "switch on"} /\ Exists(q.who)
              -> [person EXCEPT ![q.who].active = q.to = "switch on"]
         [] q.to = "remove" -> [person EXCEPT ![q.who] = Gone]
         [] OTHER -> person
  /\ UNCHANGED role

WriteRole(q) ==
  /\ role' =
       CASE q.to = "define" /\ role[q.role] = Gone -> [role EXCEPT ![q.role] = q.as]
         [] q.to = "redefine" /\ role[q.role] # Gone -> [role EXCEPT ![q.role] = q.as]
         [] q.to = "drop" /\ Deletable(q.role) -> [role EXCEPT ![q.role] = Gone]
         [] OTHER -> role
  /\ UNCHANGED person

Perform ==
  /\ \E q \in under :
       /\ IF q \in PersonRequests THEN WritePerson(q) ELSE WriteRole(q)
       /\ under' = under \ {q}
  /\ UNCHANGED suspended

(* update_tenant: one's own client, too.                                   *)
Suspend ==
  /\ \E p \in People : Can(p, "tenants.manage")
  /\ suspended' = ~suspended
  /\ UNCHANGED <<person, role, under>>

Removals == {q \in under : q.to = "remove" /\ Is(q.who, Super)}

AccountsNext ==
  /\ Admit \/ Perform \/ Suspend
  /\ together' = (together \/ Cardinality(Removals') > 1)
  /\ switched' = (switched \/ \E p \in People : Is(p, Super) /\ person[p].active
                                /\ Exists(p)' /\ ~person'[p].active)

AccountsSpec == AccountsInit /\ [][AccountsNext]_avars

-----------------------------------------------------------------------------
(* Whatever is done to roles, people and the client, a superadmin is left  *)
(* to come back in by, unless two were removed at once or one was switched *)
(* off, which asks for no other (delete_user, users.py:203, update_user    *)
(* and update_role).                                                       *)
WayBackIn == together \/ switched \/ \E p \in ActiveSuperadmins : SignedIn(p) /\ Held(p) = Everything

(* Nobody is signed in with a role that is not there: a role is given and  *)
(* deleted by requests that looked before (delete_role, roles.py:130, and  *)
(* the trigger of migration 030).                                          *)
RolesOfPeopleExist == \A p \in People : Exists(p) => role[person[p].role] # Gone

(* The console can be come back into, and who is in it has a role that is  *)
(* there (delete_user, users.py:203, and delete_role, roles.py:130).       *)
ConsoleIsOpen == WayBackIn /\ RolesOfPeopleExist

(* Why it stays open: what has been let in keeps true what it was let in   *)
(* by, the roles of superadmins above all.                                 *)
AccountsOK ==
  /\ person \in [People -> Persons \cup {Unborn, Gone}]
  /\ role \in [Roles -> Definitions \cup {Gone}]
  /\ IsFiniteSet(under) /\ under \subseteq PersonRequests \cup RoleRequests
  /\ together \in BOOLEAN /\ switched \in BOOLEAN

StillTrue(q) ==
  /\ q \in RoleRequests => q.role # Super
  /\ q.to \in {"assign", "switch off", "switch on", "remove"}
       => person[q.who] # Unborn
  /\ q.to = "assign" /\ Exists(q.who) => (q.role = Super <=> Is(q.who, Super))

OneIsLeft ==
  together \/ switched \/
    /\ ActiveSuperadmins # {}
    /\ \A q \in Removals : ActiveSuperadmins \ {q.who} # {}
    /\ \A q, r \in Removals : q = r

AccountsInv ==
  /\ AccountsOK /\ RolesOfPeopleExist
  /\ role[Super] = Everything
  /\ \A q \in under : StillTrue(q)
  /\ OneIsLeft
=============================================================================
