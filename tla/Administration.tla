---------------------------- MODULE Administration ----------------------------
(***************************************************************************)
(* What administrators change: the users, approval-groups and accounts     *)
(* tables of DynamoDB, and the commands of the Slack and REST handlers     *)
(* that write them.                                                        *)
(*                                                                         *)
(* A command is one Lambda invocation, split at its calls: the handler     *)
(* looks the caller up, the service looks the caller up again, reads what  *)
(* it checks and writes with an unconditional PutItem, UpdateItem or       *)
(* DeleteItem.  Any number of commands may overlap.                        *)
(*                                                                         *)
(* Of a group only its type matters to the checks (the name and `active'   *)
(* are left out), of an account only its role.                             *)
(***************************************************************************)
CONSTANTS
    Users,          \* Slack users
    InitialAdmins,  \* administrators entered at installation
    GroupIDs,       \* ids of Slack user groups
    AccountIDs,     \* ids of AWS accounts
    Roles,          \* names of roles in those accounts
    Invocations,    \* slots for Lambda invocations in flight
    None            \* no item, nobody

VARIABLES
    users,          \* users[u]: the role of u, or None
    groups,         \* groups[g]: the type of group g, or None
    accounts,       \* accounts[a]: the role to assume in account a, or None
    invocations,    \* invocations[i]: the command running in slot i
    validated       \* history: <<a, r>>, role r was assumed in account a once

vars == <<users, groups, accounts, invocations, validated>>

UserRole == {"user", "administrator"}
GroupType == {"security", "manager"}

UserOps == {"add_admin", "remove_admin"}
GroupOps == {"add_group", "update_group", "remove_group"}
AccountOps == {"add_account", "update_account", "remove_account"}

\* A command and its arguments.
Command ==
    [op : UserOps, user : Users]
        \cup [op : {"add_group"}, group : GroupIDs, type : GroupType]
        \cup [op : {"update_group", "remove_group"}, group : GroupIDs]
        \cup [op : {"add_account", "update_account"},
              account : AccountIDs, role : Roles]
        \cup [op : {"remove_account"}, account : AccountIDs]

\* Where an invocation stands: the call it is about to make.
Steps == {"confirm", "authorize", "read", "validate_role", "save"}

\* `copy' is the type of the group UpdateGroup read and will write back.
Invocation == [command : Command, actor : Users, step : Steps,
               copy : GroupType \cup {None}]

ASSUME ConstantsAssumption ==
    /\ InitialAdmins \subseteq Users
    /\ None \notin UserRole \cup GroupType \cup Roles \cup Invocation

Init ==
    /\ users = [u \in Users |-> IF u \in InitialAdmins THEN "administrator"
                                ELSE None]
    /\ groups = [g \in GroupIDs |-> None]
    /\ accounts = [a \in AccountIDs |-> None]
    /\ invocations = [i \in Invocations |-> None]
    /\ validated = {}

-------------------------------------------------------------------------------
(* The checks. *)

IsAdministrator(u) == users[u] = "administrator"

\* Faulty: the removal of oneself is not refused.
MayRemove_Bug(actor, u) == u \in Users
MayRemove(actor, u) == actor # u

\* Faulty: whoever is removed gets the manager role of earlier versions.
RoleAfter_Bug(op) == IF op = "add_admin" THEN "administrator" ELSE "manager"
RoleAfter(op) == IF op = "add_admin" THEN "administrator" ELSE "user"

SecurityGroups == {g \in GroupIDs : groups[g] = "security"}

\* What the query for the security group may answer: none while its index does
\* not show the group yet, or when it fails, which AddGroup takes for none.
GetSecurityGroup == {SecurityGroups, {}}

RefusesGroup(c, found) == c.type = "security" /\ found # {}

\* Faulty: the comparison is the wrong way round.
NeedsValidation_Bug(c) == accounts[c.account] = c.role

\* UpdateAccount tries a role only where the account names another one.
NeedsValidation(c) == accounts[c.account] # c.role

-------------------------------------------------------------------------------
(* Invocations. *)

At(i, step) == invocations[i] # None /\ invocations[i].step = step

Finish(i) == invocations' = [invocations EXCEPT ![i] = None]

Go(i, step) == invocations' = [invocations EXCEPT ![i].step = step]

Op(i) == IF invocations[i] = None THEN "none" ELSE invocations[i].command.op

TablesUnchanged == UNCHANGED <<users, groups, accounts, validated>>

\* The handler: a caller who is not an administrator gets an empty answer.
Start(i, u, c) ==
    /\ invocations[i] = None
    /\ IsAdministrator(u)
    /\ invocations' = [invocations EXCEPT ![i] =
           [command |-> c, actor |-> u, copy |-> None,
            step |-> IF c.op = "remove_group" THEN "confirm" ELSE "authorize"]]
    /\ TablesUnchanged

\* remove-approval-group reads the group before it calls the service.
ConfirmGroup(i) ==
    /\ At(i, "confirm")
    /\ IF groups[invocations[i].command.group] = None
       THEN Finish(i)
       ELSE Go(i, "authorize")
    /\ TablesUnchanged

\* The service looks the caller up again.
VerifyAdministratorAuthorization(i) ==
    /\ At(i, "authorize")
    /\ LET inv == invocations[i]
           c == inv.command
       IN IF /\ IsAdministrator(inv.actor)
             /\ c.op = "remove_admin" => MayRemove(inv.actor, c.user)
          THEN Go(i, IF c.op = "add_group" /\ c.type = "manager"
                     THEN "save" ELSE "read")
          ELSE Finish(i)
    /\ TablesUnchanged

\* AddAdministrator goes on with or without an item, RemoveAdministrator not.
ReadUser(i) ==
    /\ At(i, "read")
    /\ Op(i) \in UserOps
    /\ IF Op(i) = "remove_admin" /\ users[invocations[i].command.user] = None
       THEN Finish(i)
       ELSE Go(i, "save")
    /\ TablesUnchanged

CheckSecurityGroup(i) ==
    /\ At(i, "read")
    /\ Op(i) = "add_group"
    /\ \E found \in GetSecurityGroup :
           IF RefusesGroup(invocations[i].command, found)
           THEN Finish(i)
           ELSE Go(i, "save")
    /\ TablesUnchanged

\* The security group may not be removed.
ReadGroup(i) ==
    /\ At(i, "read")
    /\ Op(i) \in {"update_group", "remove_group"}
    /\ LET type == groups[invocations[i].command.group] IN
       IF type = None \/ (Op(i) = "remove_group" /\ type = "security")
       THEN Finish(i)
       ELSE invocations' = [invocations EXCEPT ![i].step = "save",
                                               ![i].copy = type]
    /\ TablesUnchanged

\* AddAccount refuses an account that exists and tries the role of a new one;
\* RemoveAccount refuses one that does not exist.
ReadAccount(i) ==
    /\ At(i, "read")
    /\ Op(i) \in {"add_account", "remove_account"}
    /\ IF (accounts[invocations[i].command.account] = None)
             # (Op(i) = "add_account")
       THEN Finish(i)
       ELSE Go(i, IF Op(i) = "add_account" THEN "validate_role" ELSE "save")
    /\ TablesUnchanged

ReadAccountToUpdate(i) ==
    /\ At(i, "read")
    /\ Op(i) = "update_account"
    /\ LET c == invocations[i].command IN
       IF accounts[c.account] = None
       THEN Finish(i)
       ELSE Go(i, IF NeedsValidation(c) THEN "validate_role" ELSE "save")
    /\ TablesUnchanged

\* The role is tried in the account, which lets it be assumed or not.
ValidateRoleAssumption(i) ==
    /\ At(i, "validate_role")
    /\ LET c == invocations[i].command IN
       \/ Finish(i) /\ UNCHANGED validated
       \/ Go(i, "save") /\ validated' = validated \cup {<<c.account, c.role>>}
    /\ UNCHANGED <<users, groups, accounts>>

SaveUser(i) ==
    /\ At(i, "save")
    /\ Op(i) \in UserOps
    /\ users' = [users EXCEPT ![invocations[i].command.user] = RoleAfter(Op(i))]
    /\ Finish(i)
    /\ UNCHANGED <<groups, accounts, validated>>

\* PutItem writes the new group or the copy, whatever the table holds now.
SaveGroup(i) ==
    /\ At(i, "save")
    /\ Op(i) \in GroupOps
    /\ LET inv == invocations[i] IN
       groups' = [groups EXCEPT ![inv.command.group] =
                      CASE Op(i) = "add_group" -> inv.command.type
                        [] Op(i) = "update_group" -> inv.copy
                        [] Op(i) = "remove_group" -> None]
    /\ Finish(i)
    /\ UNCHANGED <<users, accounts, validated>>

SaveAccount(i) ==
    /\ At(i, "save")
    /\ Op(i) \in AccountOps
    /\ LET c == invocations[i].command IN
       accounts' = [accounts EXCEPT ![c.account] =
                        IF c.op = "remove_account" THEN None ELSE c.role]
    /\ Finish(i)
    /\ UNCHANGED <<users, groups, validated>>

\* A call fails or the invocation is cut short; nothing is undone.
Abort(i) == invocations[i] # None /\ Finish(i) /\ TablesUnchanged

Next ==
    \E i \in Invocations :
        \/ \E u \in Users, c \in Command : Start(i, u, c)
        \/ ConfirmGroup(i)
        \/ VerifyAdministratorAuthorization(i)
        \/ ReadUser(i)
        \/ CheckSecurityGroup(i)
        \/ ReadGroup(i)
        \/ ReadAccount(i)
        \/ ReadAccountToUpdate(i)
        \/ ValidateRoleAssumption(i)
        \/ SaveUser(i)
        \/ SaveGroup(i)
        \/ SaveAccount(i)
        \/ Abort(i)

Spec == Init /\ [][Next]_vars

-------------------------------------------------------------------------------
(* Properties. *)

\* Every value stays in its type: what the three repositories may store and
\* what an invocation may hold.
TypeOK ==
    /\ users \in [Users -> UserRole \cup {None}]
    /\ groups \in [GroupIDs -> GroupType \cup {None}]
    /\ accounts \in [AccountIDs -> Roles \cup {None}]
    /\ invocations \in [Invocations -> Invocation \cup {None}]
    /\ validated \subseteq AccountIDs \X Roles

\* The system is not locked out by a removal alone: the save that removes the
\* last administrator is one whose caller, an administrator when it was looked
\* up, has been removed by another command since.
AdministratorRemains ==
    [][(\E u \in Users : IsAdministrator(u)) =>
           \/ (\E u \in Users : IsAdministrator(u))'
           \/ \E i \in Invocations :
                  /\ At(i, "save")
                  /\ Op(i) = "remove_admin"
                  /\ ~IsAdministrator(invocations[i].actor)]_vars

\* The role document-creator will assume in an account has been assumed there
\* once: no interleaving of AddAccount, UpdateAccount and RemoveAccount stores
\* a role that no invocation tried.
RolesValidated ==
    \A a \in AccountIDs : accounts[a] # None => <<a, accounts[a]>> \in validated

\* There is never a second security group ("exactly one security group").
OneSecurityGroup == \A g, h \in SecurityGroups : g = h

\* Once there is a security group there always is one, as RemoveGroup's refusal
\* says: "cannot remove security group: at least one security group is
\* required".
SecurityGroupStays == [][SecurityGroups # {} => SecurityGroups' # {}]_vars
===============================================================================
