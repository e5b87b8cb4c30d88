------------------------- MODULE AdministrationProofs -------------------------
(***************************************************************************)
(* Theorems about Administration, for any number of users, groups,         *)
(* accounts and overlapping commands.                                      *)
(*                                                                         *)
(* Neither property is inductive: each depends on what the commands in     *)
(* flight have checked and still holds when they save.  That a role was    *)
(* tried is never undone, and a removal keeps its caller and its arguments *)
(* whatever other commands overlap it.                                     *)
(***************************************************************************)
EXTENDS Administration, TLAPS

Commanded(i) == invocations[i].command

\* Only commands with a role reach the validation of a role.
RolesFit ==
    \A i \in Invocations :
        At(i, "validate_role") => Op(i) \in {"add_account", "update_account"}

\* The role a command is about to save has been tried.
RolesTried ==
    \A i \in Invocations :
        At(i, "save") /\ Op(i) \in {"add_account", "update_account"} =>
            <<Commanded(i).account, Commanded(i).role>> \in validated

TypeInv == TypeOK /\ RolesFit

RolesInv == TypeInv /\ RolesTried /\ RolesValidated

\* Whoever is about to remove an administrator is somebody else.
RemoversAreOthers ==
    \A i \in Invocations :
        Op(i) = "remove_admin" /\ (At(i, "read") \/ At(i, "save")) =>
            Commanded(i).user # invocations[i].actor

RemovalInv == TypeInv /\ RemoversAreOthers

-------------------------------------------------------------------------------
(* Types. *)

\* What the arguments of a command are.
LEMMA CommandFields ==
    ASSUME NEW c \in Command
    PROVE  /\ c.op \in UserOps \cup GroupOps \cup AccountOps
           /\ c.op \in UserOps => c.user \in Users
           /\ c.op \in GroupOps => c.group \in GroupIDs
           /\ c.op = "add_group" => c.type \in GroupType
           /\ c.op \in AccountOps => c.account \in AccountIDs
           /\ c.op \in {"add_account", "update_account"} => c.role \in Roles
BY DEF Command, UserOps, GroupOps, AccountOps

\* What a slot holds while a command runs in it.
LEMMA RunningInvocation ==
    ASSUME TypeOK, NEW i \in Invocations, invocations[i] # None
    PROVE  /\ invocations[i] \in Invocation
           /\ Commanded(i) \in Command
           /\ Op(i) = Commanded(i).op
BY DEF TypeOK, Invocation, Commanded, Op

\* The reads of a command change only where it stands.
Reads(i) ==
    \/ ConfirmGroup(i) \/ VerifyAdministratorAuthorization(i) \/ ReadUser(i)
    \/ CheckSecurityGroup(i) \/ ReadGroup(i) \/ ReadAccount(i)
    \/ ReadAccountToUpdate(i) \/ ValidateRoleAssumption(i)

\* A step of slot i leaves the other slots alone.
LEMMA OneSlot ==
    ASSUME TypeOK, NEW i \in Invocations, NEW x,
           invocations' = [invocations EXCEPT ![i] = x]
    PROVE  /\ invocations'[i] = x
           /\ \A j \in Invocations \ {i} : invocations'[j] = invocations[j]
           /\ x \in Invocation \cup {None} =>
                  invocations' \in [Invocations -> Invocation \cup {None}]
BY DEF TypeOK

\* Where slot i may go in a read.
LEMMA GoSlot ==
    ASSUME TypeOK, NEW i \in Invocations, invocations[i] # None,
           NEW s \in Steps, Go(i, s)
    PROVE  /\ invocations'[i] = [invocations[i] EXCEPT !.step = s]
           /\ invocations'[i] \in Invocation
           /\ \A j \in Invocations \ {i} : invocations'[j] = invocations[j]
           /\ invocations' \in [Invocations -> Invocation \cup {None}]
<1>1. invocations[i] \in Invocation
  BY DEF TypeOK
<1>2. [invocations[i] EXCEPT !.step = s] \in Invocation
  BY <1>1 DEF Invocation
<1>3. invocations' = [invocations EXCEPT ![i] = [invocations[i] EXCEPT !.step = s]]
  BY DEF Go
<1> QED
  BY <1>2, <1>3 DEF TypeOK

\* Every step keeps every value in its type.
LEMMA TypeStep == ASSUME TypeInv, [Next]_vars PROVE TypeOK'
<1> USE DEF TypeInv
<1>1. CASE UNCHANGED vars
  BY <1>1 DEF vars, TypeOK
<1>2. ASSUME NEW i \in Invocations, NEW u \in Users, NEW c \in Command,
             Start(i, u, c)
      PROVE  TypeOK'
  <2> DEFINE x == [command |-> c, actor |-> u, copy |-> None,
                   step |-> IF c.op = "remove_group" THEN "confirm"
                            ELSE "authorize"]
  <2>1. x \in Invocation
    BY DEF Invocation, Steps
  <2> QED
    BY <1>2, <2>1 DEF Start, TypeOK, TablesUnchanged
<1>3. ASSUME NEW i \in Invocations, Reads(i) PROVE TypeOK'
  <2>1. invocations[i] # None
    BY <1>3 DEF Reads, ConfirmGroup, VerifyAdministratorAuthorization, ReadUser,
           CheckSecurityGroup, ReadGroup, ReadAccount, ReadAccountToUpdate,
           ValidateRoleAssumption, At
  <2>2. invocations' \in [Invocations -> Invocation \cup {None}]
    <3>1. CASE Finish(i)
      BY <3>1 DEF Finish, TypeOK
    <3>2. CASE \E s \in Steps : Go(i, s)
      BY <2>1, <3>2, GoSlot
    <3>3. CASE ReadGroup(i) /\ ~Finish(i)
      <4> DEFINE x == [invocations[i] EXCEPT !.step = "save",
                           !.copy = groups[Commanded(i).group]]
      <4>1. invocations' = [invocations EXCEPT ![i] = x]
        BY <3>3 DEF ReadGroup, Commanded
      <4>2. Commanded(i).group \in GroupIDs
        BY <2>1, <3>3, RunningInvocation, CommandFields DEF ReadGroup, GroupOps
      <4>3. x \in Invocation
        BY <2>1, <4>2, RunningInvocation DEF Invocation, Steps, TypeOK
      <4> QED
        BY <4>1, <4>3, OneSlot
    <3> QED
      BY <1>3, <3>1, <3>2, <3>3
      DEF Reads, ConfirmGroup, VerifyAdministratorAuthorization, ReadUser,
          CheckSecurityGroup, ReadAccount, ReadAccountToUpdate,
          ValidateRoleAssumption, Steps
  <2>3. UNCHANGED <<users, groups, accounts>>
    BY <1>3 DEF Reads, ConfirmGroup, VerifyAdministratorAuthorization, ReadUser,
           CheckSecurityGroup, ReadGroup, ReadAccount, ReadAccountToUpdate,
           ValidateRoleAssumption, TablesUnchanged
  <2>4. validated' \subseteq AccountIDs \X Roles
    <3>1. CASE ValidateRoleAssumption(i)
      <4>1. Op(i) \in {"add_account", "update_account"}
        BY <3>1 DEF RolesFit, ValidateRoleAssumption
      <4>2. /\ Commanded(i).account \in AccountIDs
            /\ Commanded(i).role \in Roles
        BY <2>1, <4>1, RunningInvocation, CommandFields DEF AccountOps
      <4> QED
        BY <3>1, <4>2 DEF ValidateRoleAssumption, Commanded, TypeOK
    <3>2. CASE ~ValidateRoleAssumption(i)
      BY <1>3, <3>2
      DEF Reads, ConfirmGroup, VerifyAdministratorAuthorization, ReadUser,
          CheckSecurityGroup, ReadGroup, ReadAccount, ReadAccountToUpdate,
          TablesUnchanged, TypeOK
    <3> QED
      BY <3>1, <3>2
  <2> QED
    BY <2>2, <2>3, <2>4 DEF TypeOK
<1>4. ASSUME NEW i \in Invocations, SaveUser(i) PROVE TypeOK'
  <2>1. Commanded(i).user \in Users
    BY <1>4, RunningInvocation, CommandFields DEF SaveUser, At
  <2> QED
    BY <1>4, <2>1 DEF SaveUser, RoleAfter, Finish, TypeOK, UserRole, Commanded
<1>5. ASSUME NEW i \in Invocations, SaveGroup(i) PROVE TypeOK'
  <2>1. /\ Commanded(i).group \in GroupIDs
        /\ Op(i) = "add_group" => Commanded(i).type \in GroupType
        /\ invocations[i].copy \in GroupType \cup {None}
    BY <1>5, RunningInvocation, CommandFields DEF SaveGroup, At, Invocation
  <2> QED
    BY <1>5, <2>1 DEF SaveGroup, Finish, TypeOK, GroupOps, Commanded
<1>6. ASSUME NEW i \in Invocations, SaveAccount(i) PROVE TypeOK'
  <2>1. /\ Commanded(i).op = Op(i)
        /\ Op(i) # "remove_account" => Commanded(i).role \in Roles
    BY <1>6, RunningInvocation, CommandFields DEF SaveAccount, At, AccountOps
  <2> QED
    BY <1>6, <2>1 DEF SaveAccount, Finish, TypeOK, Commanded
<1>7. ASSUME NEW i \in Invocations, Abort(i) PROVE TypeOK'
  BY <1>7 DEF Abort, Finish, TablesUnchanged, TypeOK
<1> QED
  BY <1>1, <1>2, <1>3, <1>4, <1>5, <1>6, <1>7 DEF Next, Reads

-------------------------------------------------------------------------------
(* What the steps of one slot do to what is said of the slots.             *)

\* A command that goes on stands elsewhere and is otherwise the same.
LEMMA Moved ==
    ASSUME TypeOK, NEW i \in Invocations, invocations[i] # None,
           NEW s \in Steps, Go(i, s)
    PROVE  \A j \in Invocations :
               /\ \A t \in Steps : At(j, t)' <=> IF j = i THEN t = s ELSE At(j, t)
               /\ Op(j)' = Op(j)
               /\ Commanded(j)' = Commanded(j)
               /\ invocations'[j].actor = invocations[j].actor
               /\ invocations'[j].copy = invocations[j].copy
<1>1. invocations[i] \in Invocation /\ invocations'[i] # None
  BY GoSlot, ConstantsAssumption DEF TypeOK
<1>2. invocations'[i] = [invocations[i] EXCEPT !.step = s]
  BY GoSlot
<1>3. \A j \in Invocations \ {i} : invocations'[j] = invocations[j]
  BY GoSlot
<1>4. ASSUME NEW j \in Invocations, NEW t \in Steps
      PROVE  At(j, t)' <=> IF j = i THEN t = s ELSE At(j, t)
  <2>1. CASE j = i
    BY <1>1, <1>2, <2>1 DEF At, Invocation
  <2>2. CASE j # i
    BY <1>3, <2>2 DEF At
  <2> QED
    BY <2>1, <2>2
<1>5. ASSUME NEW j \in Invocations
      PROVE  /\ Op(j)' = Op(j)
             /\ Commanded(j)' = Commanded(j)
             /\ invocations'[j].actor = invocations[j].actor
             /\ invocations'[j].copy = invocations[j].copy
  BY <1>1, <1>2, <1>3 DEF Op, Commanded, Invocation
<1> QED
  BY <1>4, <1>5

\* A command that ends leaves its slot empty.
LEMMA Finished ==
    ASSUME TypeOK, NEW i \in Invocations, Finish(i)
    PROVE  /\ \A j \in Invocations : \A t : At(j, t)' => j # i /\ At(j, t)
           /\ Op(i)' = "none"
           /\ \A j \in Invocations \ {i} :
                  Op(j)' = Op(j) /\ invocations'[j] = invocations[j]
BY DEF TypeOK, Finish, At, Op

\* A command that starts is about to be confirmed or authorised.
LEMMA Started ==
    ASSUME TypeOK, NEW i \in Invocations, NEW u \in Users, NEW c \in Command,
           Start(i, u, c)
    PROVE  /\ \A j \in Invocations : \A t : At(j, t)' =>
                  IF j = i THEN t \in {"confirm", "authorize"} ELSE At(j, t)
           /\ Op(i)' = c.op
           /\ \A j \in Invocations \ {i} :
                  Op(j)' = Op(j) /\ invocations'[j] = invocations[j]
<1> DEFINE x == [command |-> c, actor |-> u, copy |-> None,
                 step |-> IF c.op = "remove_group" THEN "confirm"
                          ELSE "authorize"]
<1>1. x \in Invocation /\ x # None
  BY ConstantsAssumption DEF Invocation, Steps
<1> QED
  BY <1>1 DEF TypeOK, Start, At, Op

\* The security group's check and the reads of a group and an account tell a
\* command what it may do next.
LEMMA ReadGroupSlot ==
    ASSUME TypeOK, NEW i \in Invocations, ReadGroup(i), ~Finish(i)
    PROVE  /\ \A j \in Invocations :
                  /\ \A t \in Steps : At(j, t)' <=> IF j = i THEN t = "save" ELSE At(j, t)
                  /\ Op(j)' = Op(j)
                  /\ Commanded(j)' = Commanded(j)
                  /\ invocations'[j].actor = invocations[j].actor
           /\ invocations'[i].copy = groups[Commanded(i).group]
           /\ \A j \in Invocations \ {i} : invocations'[j] = invocations[j]
<1> DEFINE x == [invocations[i] EXCEPT !.step = "save",
                     !.copy = groups[Commanded(i).group]]
<1>1. invocations' = [invocations EXCEPT ![i] = x]
  BY DEF ReadGroup, Commanded
<1>2. invocations[i] \in Invocation /\ invocations[i] # None
  BY DEF ReadGroup, At, TypeOK
<1>3. groups[Commanded(i).group] \in GroupType
  BY <1>2, RunningInvocation, CommandFields DEF ReadGroup, GroupOps, TypeOK, Commanded
<1>4. x \in Invocation /\ x # None
  BY <1>2, <1>3, ConstantsAssumption DEF Invocation, Steps
<1> QED
  BY <1>1, <1>2, <1>4 DEF TypeOK, At, Op, Commanded, Invocation

\* Every step keeps the commands that validate a role commands with a role.
LEMMA RolesFitStep == ASSUME TypeInv, [Next]_vars PROVE RolesFit'
<1> USE DEF TypeInv
<1>1. CASE UNCHANGED vars
  BY <1>1 DEF vars, RolesFit, At, Op
<1>2. ASSUME NEW i \in Invocations, NEW u \in Users, NEW c \in Command,
             Start(i, u, c)
      PROVE  RolesFit'
  BY <1>2, Started DEF RolesFit
<1>3. ASSUME NEW i \in Invocations, Finish(i) PROVE RolesFit'
  BY <1>3, Finished DEF RolesFit
<1>4. ASSUME NEW i \in Invocations, invocations[i] # None,
             NEW s \in Steps \ {"validate_role"}, Go(i, s)
      PROVE  RolesFit'
  BY <1>4, Moved DEF RolesFit, Steps
<1>5. ASSUME NEW i \in Invocations, ReadAccount(i) \/ ReadAccountToUpdate(i),
             ~Finish(i)
      PROVE  RolesFit'
  <2>1. invocations[i] # None
    BY <1>5 DEF ReadAccount, ReadAccountToUpdate, At
  <2>2. CASE Go(i, "save")
    BY <1>4, <2>1, <2>2 DEF Steps
  <2>3. CASE /\ Go(i, "validate_role")
             /\ Op(i) \in {"add_account", "update_account"}
    BY <2>1, <2>3, Moved DEF RolesFit, Steps
  <2> QED
    BY <1>5, <2>2, <2>3 DEF ReadAccount, ReadAccountToUpdate
<1>6. ASSUME NEW i \in Invocations, ReadGroup(i), ~Finish(i) PROVE RolesFit'
  BY <1>6, ReadGroupSlot DEF RolesFit, Steps
<1>7. ASSUME NEW i \in Invocations, Reads(i) PROVE RolesFit'
  <2>1. invocations[i] # None
    BY <1>7 DEF Reads, ConfirmGroup, VerifyAdministratorAuthorization, ReadUser,
           CheckSecurityGroup, ReadGroup, ReadAccount, ReadAccountToUpdate,
           ValidateRoleAssumption, At
  <2> QED
    BY <1>3, <1>4, <1>5, <1>6, <1>7, <2>1
    DEF Reads, ConfirmGroup, VerifyAdministratorAuthorization, ReadUser,
        CheckSecurityGroup, ValidateRoleAssumption, Steps
<1> QED
  BY <1>1, <1>2, <1>3, <1>7
  DEF Next, Reads, SaveUser, SaveGroup, SaveAccount, Abort

LEMMA TypeInvStep == ASSUME TypeInv, [Next]_vars PROVE TypeInv'
BY TypeStep, RolesFitStep DEF TypeInv

LEMMA TypeInvInit == Init => TypeInv
<1> SUFFICES ASSUME Init PROVE TypeInv
  OBVIOUS
<1>1. TypeOK
  BY DEF Init, TypeOK, UserRole
<1>2. RolesFit
  BY DEF Init, RolesFit, At
<1> QED
  BY <1>1, <1>2 DEF TypeInv

\* The tables, the commands in flight and what they hold keep their types.
THEOREM TypeCorrect == Spec => []TypeOK
<1>1. TypeInv => TypeOK
  BY DEF TypeInv
<1> QED
  BY <1>1, TypeInvInit, TypeInvStep, PTL DEF Spec

-------------------------------------------------------------------------------
(* Roles.                                                                  *)

\* Every step keeps the roles of the accounts, and those about to be saved,
\* among the roles that were tried.
LEMMA RolesStep == ASSUME RolesInv, [Next]_vars PROVE RolesInv'
<1> USE DEF RolesInv
<1> DEFINE Kept == RolesTried' /\ RolesValidated'
<1>1. TypeInv'
  BY TypeInvStep
<1>2. CASE UNCHANGED vars
  BY <1>2, <1>1
  DEF vars, RolesTried, RolesValidated, At, Op, Commanded
<1>3. ASSUME NEW i \in Invocations, NEW u \in Users, NEW c \in Command,
             Start(i, u, c)
      PROVE  Kept
  <2>1. UNCHANGED <<accounts, validated>>
    BY <1>3 DEF Start, TablesUnchanged
  <2> QED
    BY <1>3, <2>1, Started
    DEF TypeInv, RolesTried, RolesValidated, Commanded
<1>4. ASSUME NEW i \in Invocations, Finish(i), UNCHANGED <<accounts, validated>>
      PROVE  Kept
  BY <1>4, Finished DEF TypeInv, RolesTried, RolesValidated, Commanded
<1>5. ASSUME NEW i \in Invocations, invocations[i] # None, NEW s \in Steps,
             Go(i, s), UNCHANGED <<accounts, validated>>,
             s = "save" => Op(i) \notin {"add_account", "update_account"}
      PROVE  Kept
  BY <1>5, Moved DEF TypeInv, RolesTried, RolesValidated, Steps
<1>6. ASSUME NEW i \in Invocations, ReadAccount(i), ~Finish(i) PROVE Kept
  BY <1>5, <1>6 DEF ReadAccount, At, TablesUnchanged, Steps
<1>7. ASSUME NEW i \in Invocations, ReadAccountToUpdate(i), ~Finish(i)
      PROVE  Kept
  <2>1. /\ invocations[i] # None
        /\ UNCHANGED <<accounts, validated>>
        /\ Op(i) = Commanded(i).op
        /\ Op(i) = "update_account"
    BY <1>7 DEF ReadAccountToUpdate, At, TablesUnchanged, Op, Commanded
  <2>2. CASE NeedsValidation(Commanded(i))
    BY <1>5, <1>7, <2>1, <2>2 DEF ReadAccountToUpdate, Commanded, Steps
  <2>3. CASE ~NeedsValidation(Commanded(i))
    <3>1. Go(i, "save")
      BY <1>7, <2>3 DEF ReadAccountToUpdate, Commanded
    <3>2. /\ Commanded(i).account \in AccountIDs
          /\ Commanded(i).role \in Roles
      BY <2>1, RunningInvocation, CommandFields DEF TypeInv, AccountOps
    <3>3. accounts[Commanded(i).account] = Commanded(i).role
      BY <2>3 DEF NeedsValidation
    <3>4. <<Commanded(i).account, Commanded(i).role>> \in validated
      BY <3>2, <3>3, ConstantsAssumption DEF RolesValidated
    <3> QED
      BY <2>1, <3>1, <3>4, Moved DEF TypeInv, RolesTried, RolesValidated, Steps
  <2> QED
    BY <2>2, <2>3
<1>8. ASSUME NEW i \in Invocations, ValidateRoleAssumption(i), ~Finish(i)
      PROVE  Kept
  <2>1. /\ invocations[i] # None
        /\ Go(i, "save")
        /\ validated' = validated \cup
                            {<<Commanded(i).account, Commanded(i).role>>}
        /\ accounts' = accounts
    BY <1>8 DEF ValidateRoleAssumption, At, Commanded
  <2> QED
    BY <2>1, Moved DEF TypeInv, RolesTried, RolesValidated, Steps
<1>9. ASSUME NEW i \in Invocations, ReadGroup(i), ~Finish(i) PROVE Kept
  <2>1. /\ UNCHANGED <<accounts, validated>>
        /\ Op(i) \notin {"add_account", "update_account"}
    BY <1>9 DEF ReadGroup, TablesUnchanged
  <2> QED
    BY <1>9, <2>1, ReadGroupSlot
    DEF TypeInv, RolesTried, RolesValidated, Steps
<1>10. ASSUME NEW i \in Invocations, Reads(i) PROVE Kept
  <2>1. invocations[i] # None
    BY <1>10 DEF Reads, ConfirmGroup, VerifyAdministratorAuthorization, ReadUser,
           CheckSecurityGroup, ReadGroup, ReadAccount, ReadAccountToUpdate,
           ValidateRoleAssumption, At
  <2>2. CASE \/ ConfirmGroup(i) \/ VerifyAdministratorAuthorization(i)
             \/ ReadUser(i) \/ CheckSecurityGroup(i)
    <3>1. UNCHANGED <<accounts, validated>>
      BY <2>2 DEF ConfirmGroup, VerifyAdministratorAuthorization, ReadUser,
             CheckSecurityGroup, TablesUnchanged
    <3>2. \/ Finish(i)
          \/ \E s \in Steps : Go(i, s) /\ (s = "save" =>
                 Op(i) \notin {"add_account", "update_account"})
      BY <2>1, <2>2
      DEF ConfirmGroup, VerifyAdministratorAuthorization, ReadUser,
          CheckSecurityGroup, Op, UserOps, Steps
    <3> QED
      BY <1>4, <1>5, <2>1, <3>1, <3>2
  <2>3. CASE Finish(i) /\ ~(ConfirmGroup(i) \/ VerifyAdministratorAuthorization(i)
                            \/ ReadUser(i) \/ CheckSecurityGroup(i))
    <3>1. accounts' = accounts /\ validated \subseteq validated'
      BY <1>10, <2>3 DEF Reads, ReadGroup, ReadAccount, ReadAccountToUpdate,
             ValidateRoleAssumption, TablesUnchanged
    <3> QED
      BY <2>3, <3>1, Finished
      DEF TypeInv, RolesTried, RolesValidated, Commanded
  <2> QED
    BY <1>6, <1>7, <1>8, <1>9, <1>10, <2>2, <2>3 DEF Reads
<1>11. ASSUME NEW i \in Invocations, SaveAccount(i) PROVE Kept
  <2>1. Op(i) = Commanded(i).op /\ Op(i) \in AccountOps
    BY <1>11 DEF SaveAccount, At, Op, Commanded
  <2>2. accounts' = [accounts EXCEPT ![Commanded(i).account] =
                         IF Op(i) = "remove_account" THEN None
                         ELSE Commanded(i).role]
    BY <1>11, <2>1 DEF SaveAccount, Commanded
  <2>3. Op(i) # "remove_account" =>
            <<Commanded(i).account, Commanded(i).role>> \in validated
    BY <1>11, <2>1 DEF SaveAccount, RolesTried, AccountOps
  <2>4. validated' = validated /\ Finish(i)
    BY <1>11 DEF SaveAccount
  <2>5. RolesValidated'
    BY <2>2, <2>3, <2>4 DEF RolesValidated, TypeInv, TypeOK
  <2>6. RolesTried'
    BY <2>4, Finished DEF TypeInv, RolesTried, Commanded
  <2> QED
    BY <2>5, <2>6
<1> QED
  BY <1>1, <1>2, <1>3, <1>4, <1>10, <1>11
  DEF Next, Reads, SaveUser, SaveGroup, Abort, TablesUnchanged

\* Whatever commands overlap or fail, the role of every account in the table
\* has been assumed in that account once.
THEOREM RolesStayValidated == Spec => []RolesValidated
<1>1. Init => RolesInv
  <2> SUFFICES ASSUME Init PROVE RolesInv
    OBVIOUS
  <2>1. RolesTried /\ RolesValidated
    BY DEF Init, RolesTried, RolesValidated, At
  <2> QED
    BY <2>1, TypeInvInit DEF RolesInv
<1>2. RolesInv => RolesValidated
  BY DEF RolesInv
<1> QED
  BY <1>1, <1>2, RolesStep, PTL DEF Spec

-------------------------------------------------------------------------------
(* Administrators.                                                         *)

\* Every step keeps the removals in flight removals of somebody else.
LEMMA RemovalStep == ASSUME RemovalInv, [Next]_vars PROVE RemovalInv'
<1> USE DEF RemovalInv
<1>1. TypeInv'
  BY TypeInvStep
<1>2. CASE UNCHANGED vars
  BY <1>1, <1>2 DEF vars, RemoversAreOthers, At, Op, Commanded
<1>3. ASSUME NEW i \in Invocations, NEW u \in Users, NEW c \in Command,
             Start(i, u, c)
      PROVE  RemoversAreOthers'
  BY <1>3, Started DEF TypeInv, RemoversAreOthers, Commanded
<1>4. ASSUME NEW i \in Invocations, Finish(i) PROVE RemoversAreOthers'
  BY <1>4, Finished DEF TypeInv, RemoversAreOthers, Commanded
<1>5. ASSUME NEW i \in Invocations, invocations[i] # None,
             \E s \in Steps : Go(i, s) /\ (s \in {"read", "save"} =>
                 \/ Op(i) # "remove_admin"
                 \/ At(i, "read")
                 \/ Commanded(i).user # invocations[i].actor)
      PROVE  RemoversAreOthers'
  BY <1>5, Moved DEF TypeInv, RemoversAreOthers, Steps
<1>6. ASSUME NEW i \in Invocations, Reads(i) PROVE RemoversAreOthers'
  <2>1. invocations[i] # None
    BY <1>6 DEF Reads, ConfirmGroup, VerifyAdministratorAuthorization, ReadUser,
           CheckSecurityGroup, ReadGroup, ReadAccount, ReadAccountToUpdate,
           ValidateRoleAssumption, At
  <2>2. CASE VerifyAdministratorAuthorization(i) /\ ~Finish(i)
    <3>1. Op(i) = Commanded(i).op
      BY <2>1 DEF Op, Commanded
    <3>2. /\ Go(i, "read") \/ Go(i, "save")
          /\ Op(i) = "remove_admin" => Commanded(i).user # invocations[i].actor
      BY <2>2, <3>1
      DEF VerifyAdministratorAuthorization, MayRemove, Commanded
    <3> QED
      BY <1>5, <2>1, <3>2 DEF Steps
  <2>3. CASE ReadGroup(i) /\ ~Finish(i)
    <3>1. Op(i) # "remove_admin"
      BY <2>3 DEF ReadGroup
    <3> QED
      BY <2>1, <2>3, <3>1, ReadGroupSlot
      DEF TypeInv, RemoversAreOthers, Steps
  <2>4. CASE (\/ ConfirmGroup(i) \/ ReadUser(i) \/ CheckSecurityGroup(i)
              \/ ReadAccount(i) \/ ReadAccountToUpdate(i)
              \/ ValidateRoleAssumption(i)) /\ ~Finish(i)
    <3>1. \E s \in Steps :
              Go(i, s) /\ (s \in {"read", "save"} =>
                  Op(i) # "remove_admin" \/ At(i, "read"))
      <4>1. At(i, "validate_role") => Op(i) # "remove_admin"
        BY DEF TypeInv, RolesFit
      <4> QED
        BY <2>4, <4>1
        DEF ConfirmGroup, ReadUser, CheckSecurityGroup, ReadAccount,
            ReadAccountToUpdate, ValidateRoleAssumption, Steps
    <3> QED
      BY <1>5, <2>1, <3>1
  <2> QED
    BY <1>4, <1>6, <2>2, <2>3, <2>4 DEF Reads
<1> QED
  BY <1>1, <1>2, <1>3, <1>4, <1>6
  DEF Next, Reads, SaveUser, SaveGroup, SaveAccount, Abort

\* Only SaveUser writes to the users table.
LEMMA UserWriters ==
    ASSUME [Next]_vars
    PROVE  users' = users \/ \E i \in Invocations : SaveUser(i)
BY DEF Next, vars, Start, ConfirmGroup, VerifyAdministratorAuthorization,
       ReadUser, CheckSecurityGroup, ReadGroup, ReadAccount,
       ReadAccountToUpdate, ValidateRoleAssumption, SaveGroup, SaveAccount, Abort,
       TablesUnchanged

\* A save that leaves no administrator is a removal whose caller is none.
LEMMA LastAdministrator ==
    ASSUME RemovalInv, NEW i \in Invocations, SaveUser(i),
           NEW u \in Users, IsAdministrator(u),
           ~(\E v \in Users : IsAdministrator(v))'
    PROVE  /\ At(i, "save") /\ Op(i) = "remove_admin"
           /\ ~IsAdministrator(invocations[i].actor)
<1>1. /\ At(i, "save") /\ Op(i) \in UserOps
      /\ users' = [users EXCEPT ![Commanded(i).user] = RoleAfter(Op(i))]
  BY DEF SaveUser, Commanded
<1>2. users \in [Users -> UserRole \cup {None}]
  BY DEF RemovalInv, TypeInv, TypeOK
<1>3. ASSUME NEW v \in Users, IsAdministrator(v)
      PROVE  Commanded(i).user = v /\ Op(i) = "remove_admin"
  <2>1. users'[v] # "administrator"
    BY DEF IsAdministrator
  <2> QED
    BY <1>1, <1>2, <1>3, <2>1 DEF RoleAfter, UserOps, IsAdministrator
<1>4. invocations[i].actor \in Users
  BY <1>1 DEF RemovalInv, TypeInv, TypeOK, Invocation, At
<1>5. Commanded(i).user # invocations[i].actor
  BY <1>1, <1>3 DEF RemovalInv, RemoversAreOthers
<1> QED
  BY <1>1, <1>3, <1>4, <1>5

\* However many commands overlap and wherever they fail, the last administrator
\* is only removed by a command whose caller has been removed since it was
\* looked up.
THEOREM AdministratorAlwaysRemains == Spec => AdministratorRemains
<1> DEFINE Remains == \E u \in Users : IsAdministrator(u)
           Excused == \E i \in Invocations :
                          /\ At(i, "save")
                          /\ Op(i) = "remove_admin"
                          /\ ~IsAdministrator(invocations[i].actor)
<1>1. Init => RemovalInv
  BY TypeInvInit DEF Init, RemovalInv, RemoversAreOthers, At
<1>2. RemovalInv /\ [Next]_vars => RemovalInv'
  BY RemovalStep
<1>3. RemovalInv /\ [Next]_vars => (Remains => Remains' \/ Excused)
  <2> SUFFICES ASSUME RemovalInv, [Next]_vars, Remains, ~Remains'
               PROVE  Excused
    OBVIOUS
  <2>1. users' # users
    BY DEF IsAdministrator
  <2>2. PICK i \in Invocations : SaveUser(i)
    BY <2>1, UserWriters
  <2>3. PICK u \in Users : IsAdministrator(u)
    OBVIOUS
  <2> QED
    BY <2>2, <2>3, LastAdministrator
<1>4. RemovalInv /\ [Next]_vars => [Remains => Remains' \/ Excused]_vars
  BY <1>3
<1> QED
  BY <1>1, <1>2, <1>4, PTL DEF Spec, AdministratorRemains

===============================================================================
