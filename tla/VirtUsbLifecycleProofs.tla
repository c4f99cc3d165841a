----------------------- MODULE VirtUsbLifecycleProofs -----------------------
(***************************************************************************)
(* Proofs about VirtUsbLifecycle, for any number of instances, files and   *)
(* devices.                                                                *)
(*                                                                         *)
(* That the module gives back what it took holds whichever instance fails  *)
(* to come up: the place of the loader determines what is held and which   *)
(* instances have which parts (LoaderInv).  What user space relies on      *)
(* holds if only the first instance may fail (OnlyFirstFails), because a   *)
(* later failure undoes instances that are already in use, without the     *)
(* kernel's protection against unloading.                                  *)
(***************************************************************************)
EXTENDS VirtUsbLifecycle, TLAPS

\* Only the creation of the first instance may fail.
OnlyFirstFails == MayFail \subseteq {0}

-----------------------------------------------------------------------------
(* The loader.                                                             *)

Early == {"manager_init", "devices", "control", "driver"}
Probing == {"add", "install", "cdev", "activate", "created"}
Removing == {"deactivate", "stop", "remove"}
Late == {"undriver", "uncontrol", "free", "manager_exit", "gone"}
Exiting == {"destroy"} \cup Removing \cup Late

\* What the labels of virtusb_module_init and the order of virtusb_module_exit
\* leave held at each place.
HeldInv ==
    /\ "devices" \in held <=>
          pc \notin {"manager_init", "devices", "manager_exit", "gone"}
    /\ "control" \in held <=>
          pc \notin {"manager_init", "devices", "control", "free",
                     "manager_exit", "gone"}
    /\ "driver" \in held <=> pc \notin Early \cup (Late \ {"undriver"})

\* How far the loop over the instances is.
CreatedInv ==
    /\ pc \in Early \cup Late => created = 0
    /\ pc \in Probing \cup Removing => created < HcdCount
    /\ pc \in {"loaded", "shutdown"} => created = HcdCount

\* Instances below `created' have a part, and instance `created' has it at the
\* places from where it is given to where it is taken away.
HasPart(part, places) ==
    \A i \in Instances :
        i \in part <=> i < created \/ (i = created /\ pc \in places)

PartsInv ==
    /\ HasPart(alive, Probing \cup Removing)
    /\ HasPart(added, (Probing \ {"add"}) \cup Removing)
    /\ HasPart(callback, {"cdev", "activate", "created", "deactivate", "stop"})
    /\ HasPart(node, {"activate", "created", "deactivate"})
    /\ HasPart(active, {"created", "deactivate"})

LoaderInv == TypeOK /\ HeldInv /\ CreatedInv /\ PartsInv

\* Nothing is held when the module is loaded.
LEMMA LoaderInit == Init => LoaderInv
<1> SUFFICES ASSUME Init PROVE LoaderInv
    OBVIOUS
<1>1. HcdCount \in Nat /\ HcdCount >= 1
    BY LifecycleAssumption
<1>2. TypeOK
  <2> PICK no \in BOOLEAN : no = FALSE
      BY Zenon
  <2>1. [at |-> NoInstance, busy |-> no]
           \in [at : Instances \cup {NoInstance}, busy : BOOLEAN]
      OBVIOUS
  <2>2. file \in [Files -> [at : Instances \cup {NoInstance}, busy : BOOLEAN]]
      BY <2>1, Zenon DEF Init, Closed
  <2> QED
    <3>1. going \in BOOLEAN
        BY Zenon DEF Init
    <3>2. created \in 0..HcdCount
        BY <1>1 DEF Init
    <3>3. /\ pc \in Places /\ registry \subseteq Devices
          /\ held \subseteq {"devices", "control", "driver"}
          /\ alive \cup added \cup callback \cup node \cup active \subseteq Instances
          /\ peer \in [Devices -> Instances \cup {NoInstance}]
        BY DEF Init, Places
    <3> QED
        BY <2>2, <3>1, <3>2, <3>3 DEF TypeOK
<1>3. HeldInv /\ CreatedInv /\ PartsInv
    BY <1>1 DEF Init, HeldInv, CreatedInv, PartsInv, HasPart, Instances, Early,
        Late, Probing, Removing
<1> QED
    BY <1>2, <1>3 DEF LoaderInv

\* What a file may be.
FileType == [at : Instances \cup {NoInstance}, busy : BOOLEAN]

\* What an ioctl may do to the devices.
IoctlEffect(f) ==
    \/ \E d \in Devices \ registry : registry' = registry \cup {d} /\ UNCHANGED peer
    \/ \E d \in registry :
          \/ peer' = [peer EXCEPT ![d] = file[f].at] /\ UNCHANGED registry
          \/ peer' = [peer EXCEPT ![d] = NoInstance] /\ UNCHANGED registry
          \/ /\ registry' = registry \ {d}
             /\ peer' = [peer EXCEPT ![d] = NoInstance]
    \/ UNCHANGED <<registry, peer>>

\* What user space does: file f becomes g.
Moves(f, g) ==
    /\ file' = [file EXCEPT ![f] = g]
    /\ ModuleUnchanged
    /\ \/ g.at \in node /\ ~going /\ ~g.busy /\ UNCHANGED <<registry, peer>>
       \/ g.at \in active /\ g.at = file[f].at /\ UNCHANGED <<registry, peer>>
       \/ file[f].busy /\ g.at = file[f].at /\ ~g.busy /\ IoctlEffect(f)
       \/ g.at = NoInstance /\ ~g.busy /\ UNCHANGED <<registry, peer>>

\* Opening and closing a control device, and an ioctl on it, are such moves.
LEMMA UserMoves ==
    ASSUME TypeOK, NEW f \in Files, User(f)
    PROVE  \E g \in FileType : Moves(f, g)
<1>0. file[f] \in FileType
    BY DEF TypeOK, FileType
<1> PICK no \in BOOLEAN : no = FALSE
    BY Zenon
<1> PICK yes \in BOOLEAN : yes = TRUE
    BY Zenon
<1>1. ASSUME NEW i \in Instances, Open(f, i) PROVE \E g \in FileType : Moves(f, g)
  <2> DEFINE g == [file[f] EXCEPT !.at = i]
  <2>1. g \in FileType /\ g.at = i /\ g.busy = file[f].busy
      BY <1>0 DEF FileType
  <2>2. file' = [file EXCEPT ![f] = g]
      BY <1>1 DEF Open
  <2>3. ~file[f].busy
      BY <1>1 DEF Open, Closed
  <2> HIDE DEF g
  <2> QED
      BY <1>1, <2>1, <2>2, <2>3 DEF Open, Moves
<1>2. ASSUME Ioctl(f) PROVE \E g \in FileType : Moves(f, g)
  <2> DEFINE g == [file[f] EXCEPT !.busy = yes]
  <2>1. g \in FileType /\ g.at = file[f].at
      BY <1>0 DEF FileType
  <2>2. file' = [file EXCEPT ![f] = g]
      BY <1>2 DEF Ioctl
  <2> HIDE DEF g
  <2> QED
      BY <1>2, <2>1, <2>2 DEF Ioctl, Moves
<1>3. ASSUME IoctlReturns(f) PROVE \E g \in FileType : Moves(f, g)
  <2> DEFINE g == [file[f] EXCEPT !.busy = no]
  <2>1. g \in FileType /\ g.at = file[f].at /\ ~g.busy
      BY <1>0 DEF FileType
  <2>2. file' = [file EXCEPT ![f] = g]
      BY <1>3 DEF IoctlReturns
  <2>3. IoctlEffect(f) /\ ModuleUnchanged /\ file[f].busy
      BY <1>3 DEF IoctlReturns, IoctlEffect
  <2> HIDE DEF g
  <2> QED
      BY <2>1, <2>2, <2>3 DEF Moves
<1>4. ASSUME Close(f) PROVE \E g \in FileType : Moves(f, g)
  <2> DEFINE g == [at |-> NoInstance, busy |-> no]
  <2>1. g \in FileType /\ g.at = NoInstance /\ ~g.busy
      BY DEF FileType
  <2>2. file' = [file EXCEPT ![f] = g]
      BY <1>4, Zenon DEF Close, Closed
  <2> HIDE DEF g
  <2> QED
      BY <1>4, <2>1, <2>2 DEF Close, Moves
<1> QED
    BY <1>1, <1>2, <1>3, <1>4 DEF User

\* What user space does leaves the loader alone.
LEMMA UserKeeps ==
    ASSUME TypeOK, NEW f \in Files, NEW g \in FileType, Moves(f, g)
    PROVE  ModuleUnchanged /\ TypeOK'
<1>1. ModuleUnchanged
    BY DEF Moves
<1>2. file' \in [Files -> FileType]
    BY DEF Moves, TypeOK, FileType
<1>3. registry' \subseteq Devices
      /\ peer' \in [Devices -> Instances \cup {NoInstance}]
    BY DEF TypeOK, Moves, IoctlEffect
<1> QED
    BY <1>1, <1>2, <1>3 DEF TypeOK, FileType, ModuleUnchanged, instanceVars

\* Every step of virtusb_module_init, with its failures, and of
\* virtusb_module_exit keeps what the place of the loader says.
LEMMA LoaderStep ==
    ASSUME LoaderInv, [Next]_vars
    PROVE  LoaderInv'
<1> USE DEF LoaderInv, Early, Late, Probing, Removing
<1>0. HcdCount \in Nat /\ HcdCount >= 1 /\ MayFail \subseteq Instances
      /\ created \in Int /\ created >= 0 /\ created <= HcdCount
    BY LifecycleAssumption DEF TypeOK
<1>u. CASE UNCHANGED vars
    BY <1>u DEF vars, instanceVars, userVars, TypeOK, HeldInv, CreatedInv, PartsInv,
        HasPart
<1>f. ASSUME NEW f \in Files, User(f) PROVE LoaderInv'
  <2>1. ModuleUnchanged /\ TypeOK'
      BY <1>f, UserMoves, UserKeeps DEF LoaderInv
  <2> QED
      BY <2>1 DEF ModuleUnchanged, instanceVars, HeldInv, CreatedInv, PartsInv,
          HasPart
<1>l. ASSUME ModuleInit \/ Unload \/ ModuleExit PROVE LoaderInv'
  <2>t. TypeOK' /\ HeldInv' /\ CreatedInv' /\ PartsInv'
    <3>1. CASE ManagerInit
        BY <1>0, <3>1 DEF ManagerInit, At, instanceVars, userVars, TypeOK, Places,
            HeldInv, CreatedInv, PartsInv, HasPart, Instances
    <3>2. CASE AllocDevices
        BY <1>0, <3>2 DEF AllocDevices, Acquire, At, instanceVars, userVars,
            TypeOK, Places, HeldInv, CreatedInv, PartsInv, HasPart, Instances
    <3>3. CASE ControlRegister
        BY <1>0, <3>3 DEF ControlRegister, Acquire, At, instanceVars, userVars,
            TypeOK, Places, HeldInv, CreatedInv, PartsInv, HasPart, Instances
    <3>4. CASE DriverRegister
        BY <1>0, <3>4 DEF DriverRegister, Acquire, At, instanceVars, userVars,
            TypeOK, Places, HeldInv, CreatedInv, PartsInv, HasPart, Instances
    <3>5. CASE CreateHcd
        BY <1>0, <3>5 DEF CreateHcd, At, userVars,
            TypeOK, Places, HeldInv, CreatedInv, PartsInv, HasPart, Instances
    <3>6. CASE AddHcd
        BY <1>0, <3>6 DEF AddHcd, At, userVars,
            TypeOK, Places, HeldInv, CreatedInv, PartsInv, HasPart, Instances
    <3>7. CASE InstallCallback
        BY <1>0, <3>7 DEF InstallCallback, At, userVars,
            TypeOK, Places, HeldInv, CreatedInv, PartsInv, HasPart, Instances
    <3>8. CASE CreateControl
        BY <1>0, <3>8 DEF CreateControl, At, userVars,
            TypeOK, Places, HeldInv, CreatedInv, PartsInv, HasPart, Instances
    <3>9. CASE ActivateControl
        BY <1>0, <3>9 DEF ActivateControl, At, userVars,
            TypeOK, Places, HeldInv, CreatedInv, PartsInv, HasPart, Instances
    <3>10. CASE HcdCreated
        BY <1>0, <3>10 DEF HcdCreated, At, userVars, instanceVars,
            TypeOK, Places, HeldInv, CreatedInv, PartsInv, HasPart, Instances
    <3>11. CASE Unload
      <4> PICK tr \in BOOLEAN : tr = TRUE
          BY Zenon
      <4> QED
        BY <1>0, <3>11 DEF Unload, At, userVars, instanceVars,
            TypeOK, Places, HeldInv, CreatedInv, PartsInv, HasPart, Instances
    <3>12. CASE ShutdownAll
        BY <1>0, <3>12 DEF ShutdownAll, At, instanceVars,
            TypeOK, Places, HeldInv, CreatedInv, PartsInv, HasPart, Instances
    <3>13. CASE DestroyHcds
        BY <1>0, <3>13 DEF DestroyHcds, At, userVars, instanceVars,
            TypeOK, Places, HeldInv, CreatedInv, PartsInv, HasPart, Instances
    <3>14. CASE DestroyControl
        BY <1>0, <3>14 DEF DestroyControl, At, userVars,
            TypeOK, Places, HeldInv, CreatedInv, PartsInv, HasPart, Instances
    <3>15. CASE StopHcd
        BY <1>0, <3>15 DEF StopHcd, At, userVars,
            TypeOK, Places, HeldInv, CreatedInv, PartsInv, HasPart, Instances
    <3>16. CASE RemoveHcd
        BY <1>0, <3>16 DEF RemoveHcd, At, userVars,
            TypeOK, Places, HeldInv, CreatedInv, PartsInv, HasPart, Instances
    <3>17. CASE DriverUnregister
        BY <1>0, <3>17 DEF DriverUnregister, GiveUp, At, instanceVars, userVars,
            TypeOK, Places, HeldInv, CreatedInv, PartsInv, HasPart, Instances
    <3>18. CASE ControlUnregister
        BY <1>0, <3>18 DEF ControlUnregister, GiveUp, At, instanceVars, userVars,
            TypeOK, Places, HeldInv, CreatedInv, PartsInv, HasPart, Instances
    <3>19. CASE FreeDevices
        BY <1>0, <3>19 DEF FreeDevices, GiveUp, At, instanceVars, userVars,
            TypeOK, Places, HeldInv, CreatedInv, PartsInv, HasPart, Instances
    <3>20. CASE ManagerExit
        BY <1>0, <3>20 DEF ManagerExit, At, instanceVars, userVars,
            TypeOK, Places, HeldInv, CreatedInv, PartsInv, HasPart, Instances
    <3> QED
        BY <1>l, <3>1, <3>2, <3>3, <3>4, <3>5, <3>6, <3>7, <3>8, <3>9, <3>10,
           <3>11, <3>12, <3>13, <3>14, <3>15, <3>16, <3>17, <3>18, <3>19, <3>20
        DEF ModuleInit, ModuleExit
  <2> QED
      BY <2>t
<1> QED
    BY <1>u, <1>f, <1>l DEF Next

\* The place of the loader in virtusb_module_init or _exit determines what the
\* module holds, at all times and whichever instance fails.
THEOREM LoaderInvariance == Spec => []LoaderInv
<1> QED
    BY LoaderInit, LoaderStep, PTL DEF Spec

\* The variables keep their shape; so `created' never leaves 0..HcdCount, and
\* virtusb_module_destroy_hcds never takes one instance too many.
THEOREM TypeCorrect == Spec => []TypeOK
<1>1. LoaderInv => TypeOK
    BY DEF LoaderInv
<1> QED
    BY <1>1, LoaderInvariance, PTL

\* A module that is gone holds neither a resource nor a host controller,
\* wherever in virtusb_module_init a failure sent it to the labels.
THEOREM NoLeaks == Spec => []NothingLeaks
<1>1. ASSUME LoaderInv PROVE NothingLeaks
  <2> SUFFICES ASSUME At("gone") PROVE NothingLeaks
      BY DEF NothingLeaks
  <2>1. created = 0 /\ held = {}
      BY <1>1 DEF At, LoaderInv, HeldInv, CreatedInv, TypeOK, Early, Late
  <2>2. \A i \in Instances : i \notin alive \cup added \cup callback \cup node
                                        \cup active
      BY <1>1, <2>1, LifecycleAssumption DEF LoaderInv, PartsInv, HasPart, At,
          Instances, Probing, Removing
  <2> QED
      BY <1>1, <2>1, <2>2 DEF LoaderInv, TypeOK, NothingLeaks
<1> QED
    BY <1>1, LoaderInvariance, PTL

-----------------------------------------------------------------------------
(* User space.                                                             *)

\* Nobody has used a control device.
Unused == registry = {} /\ \A d \in Devices : peer[d] = NoInstance

\* A file is open on a character device, and in an ioctl on an active one; only
\* registered devices are attached, to a root hub that is there; nothing
\* happens before the first control is active; and while host controllers are
\* removed all files are closed and stay so, and there are no devices.
UserInv ==
    /\ \A f \in Files : /\ file[f].at # NoInstance => file[f].at \in node
                        /\ file[f].busy => file[f].at \in active
    /\ \A d \in Devices : peer[d] # NoInstance => d \in registry /\ peer[d] \in alive
    /\ active = {} => Unused
    /\ pc \in Exiting => Unused
    /\ pc \in Exiting \cup {"shutdown"} =>
          /\ \A f \in Files : file[f].at = NoInstance
          /\ going \/ node = {}

\* A module that is being loaded is not in use.
LEMMA UserInit == Init => UserInv
<1> SUFFICES ASSUME Init PROVE UserInv
    OBVIOUS
<1>1. \A f \in Files : file[f].at = NoInstance /\ ~file[f].busy
    BY Zenon DEF Init, Closed
<1>2. node = {} /\ registry = {} /\ \A d \in Devices : peer[d] = NoInstance
    BY DEF Init
<1>3. pc \notin Exiting \cup {"shutdown"}
    BY DEF Init, Exiting, Removing, Late
<1> QED
    BY <1>1, <1>2, <1>3 DEF UserInv, Unused

\* Opening, closing and ioctls.
LEMMA UserActs ==
    ASSUME LoaderInv, UserInv, NEW f \in Files, NEW g \in FileType, Moves(f, g)
    PROVE  UserInv'
<1>0. /\ file \in [Files -> FileType] /\ peer \in [Devices -> Instances \cup {NoInstance}]
      /\ NoInstance \notin Instances /\ active \subseteq Instances
      /\ registry \subseteq Devices /\ node \subseteq Instances
    BY LifecycleAssumption DEF LoaderInv, TypeOK, FileType
<1>1. active \subseteq alive /\ active \subseteq node
    BY LifecycleAssumption DEF LoaderInv, TypeOK, PartsInv, HasPart, Instances,
        Probing, Removing
<1>2. \A h \in Files : file'[h] = IF h = f THEN g ELSE file[h]
    BY <1>0 DEF Moves
<1>3. UNCHANGED <<pc, going, alive, node, active>>
    BY DEF Moves, ModuleUnchanged, instanceVars
<1>4. \A h \in Files : /\ file'[h].at # NoInstance => file'[h].at \in node
                       /\ file'[h].busy => file'[h].at \in active
    BY <1>0, <1>1, <1>2 DEF Moves, UserInv
<1>5. pc \in Exiting \cup {"shutdown"} => \A h \in Files : file'[h].at = NoInstance
    BY <1>0, <1>1, <1>2 DEF Moves, UserInv
<1>6. CASE UNCHANGED <<registry, peer>>
    BY <1>3, <1>4, <1>5, <1>6 DEF UserInv, Unused
<1>7. CASE file[f].busy /\ IoctlEffect(f)
  <2>1. active # {} /\ pc \notin Exiting \cup {"shutdown"} /\ file[f].at \in alive
      BY <1>0, <1>1, <1>7 DEF UserInv
  <2>2. \A d \in Devices : peer'[d] # NoInstance =>
                              d \in registry' /\ peer'[d] \in alive
      BY <1>0, <1>7, <2>1 DEF UserInv, IoctlEffect
  <2> QED
      BY <1>3, <1>4, <2>1, <2>2 DEF UserInv
<1> QED
    BY <1>6, <1>7 DEF Moves

\* Every step of the loader.
LEMMA LoaderActs ==
    ASSUME OnlyFirstFails, LoaderInv, UserInv, ModuleInit \/ Unload \/ ModuleExit
    PROVE  UserInv'
<1> USE DEF Exiting, Removing, Late
<1>0. /\ HcdCount \in Nat /\ HcdCount >= 1 /\ created \in Int /\ MayFail \subseteq {0}
      /\ file \in [Files -> FileType] /\ peer \in [Devices -> Instances \cup {NoInstance}]
      /\ active \subseteq Instances /\ node \subseteq Instances
      /\ registry \subseteq Devices /\ NoInstance \notin Instances
    BY LifecycleAssumption DEF LoaderInv, TypeOK, FileType, OnlyFirstFails
<1>1. CASE /\ UNCHANGED <<going, node, active, file, registry, peer>>
           /\ pc' \in Exiting => pc \in Exiting
           /\ pc' # "shutdown"
           /\ alive \subseteq alive'
    BY <1>1 DEF UserInv, Unused
<1>2. CASE /\ created = 0 /\ pc \in Early \cup {"create", "add", "cdev"}
           /\ pc' \in Exiting
           /\ UNCHANGED <<going, node, active, file, registry, peer>>
  <2>1. node = {} /\ active = {}
      BY <1>0, <1>2 DEF LoaderInv, PartsInv, HasPart, Instances, Early
  <2>2. \A f \in Files : file[f].at = NoInstance
      BY <2>1 DEF UserInv
  <2> QED
      BY <1>2, <2>1, <2>2 DEF UserInv, Unused
<1>3. CASE CreateControl /\ pc' = "activate"
    BY <1>3 DEF CreateControl, At, UserInv, Unused, userVars
<1>4. CASE ActivateControl
    BY <1>4 DEF ActivateControl, At, UserInv, Unused, userVars
<1>5. CASE Unload
  <2>1. going' = TRUE /\ UNCHANGED <<alive, node, active, file, registry, peer>>
        /\ pc' = "shutdown"
      BY <1>5 DEF Unload, instanceVars, userVars
  <2>2. \A f \in Files : file[f].at = NoInstance
    <3>1. Closed.at = NoInstance
        BY Zenon DEF Closed
    <3>2. \A f \in Files : file[f] = Closed
        BY <1>5 DEF Unload
    <3> QED
        BY <3>1, <3>2
  <2> QED
      BY <2>1, <2>2 DEF UserInv, Unused
<1>6. CASE ShutdownAll
  <2>1. UNCHANGED <<going, alive, node, active, file>> /\ pc = "shutdown"
        /\ pc' \in {"shutdown", "destroy"}
      BY <1>6 DEF ShutdownAll, instanceVars, At
  <2>2. CASE registry = {} /\ UNCHANGED <<registry, peer>>
      BY <2>1, <2>2 DEF UserInv, Unused
  <2>3. ASSUME NEW d \in registry, registry' = registry \ {d},
               peer' = [peer EXCEPT ![d] = NoInstance], UNCHANGED pc
        PROVE  UserInv'
      BY <1>0, <2>1, <2>3 DEF UserInv, Unused
  <2> QED
      BY <1>6, <2>2, <2>3 DEF ShutdownAll
<1>7. CASE DestroyControl
  <2>1. \A f \in Files : file[f].at = NoInstance /\ ~file[f].busy
      BY <1>0, <1>7 DEF DestroyControl, At, UserInv
  <2> QED
      BY <1>7, <2>1 DEF DestroyControl, At, UserInv, Unused, userVars
<1>8. CASE RemoveHcd
    BY <1>8 DEF RemoveHcd, At, UserInv, Unused, userVars
<1> USE DEF At, instanceVars, userVars
<1>9. CASE ManagerInit
    BY <1>1, <1>9 DEF ManagerInit
<1>10. CASE AllocDevices \/ ControlRegister \/ DriverRegister
  <2>1. created = 0 /\ pc \in Early
      BY <1>10 DEF AllocDevices, ControlRegister, DriverRegister, Acquire,
          LoaderInv, CreatedInv, Early
  <2> QED
      BY <1>1, <1>2, <1>10, <2>1 DEF AllocDevices, ControlRegister, DriverRegister,
          Acquire
<1>11. CASE CreateHcd
    BY <1>0, <1>1, <1>2, <1>11 DEF CreateHcd
<1>12. CASE AddHcd
    BY <1>0, <1>1, <1>2, <1>12 DEF AddHcd
<1>13. CASE CreateControl
    BY <1>0, <1>2, <1>3, <1>13 DEF CreateControl
<1>14. CASE InstallCallback \/ HcdCreated
    BY <1>1, <1>14 DEF InstallCallback, HcdCreated
<1>15. CASE DestroyHcds \/ StopHcd
    BY <1>1, <1>15 DEF DestroyHcds, StopHcd
<1>16. CASE DriverUnregister \/ ControlUnregister \/ FreeDevices \/ ManagerExit
    BY <1>1, <1>16 DEF DriverUnregister, ControlUnregister, FreeDevices, GiveUp,
        ManagerExit
<1> QED
    BY <1>4, <1>5, <1>6, <1>7, <1>8, <1>9, <1>10, <1>11, <1>12, <1>13, <1>14,
       <1>15, <1>16 DEF ModuleInit, ModuleExit

\* If only the first instance may fail, user space and the loader respect each
\* other in every step.
LEMMA UserStep ==
    ASSUME OnlyFirstFails, LoaderInv, UserInv, [Next]_vars
    PROVE  UserInv'
<1>1. CASE UNCHANGED vars
    BY <1>1 DEF vars, instanceVars, userVars, UserInv, Unused
<1>2. ASSUME NEW f \in Files, User(f) PROVE UserInv'
    BY <1>2, UserMoves, UserActs DEF LoaderInv
<1> QED
    BY <1>1, <1>2, LoaderActs DEF Next

\* The invariant of user space, on which the theorems below rest.
THEOREM UserInvariance ==
    ASSUME OnlyFirstFails
    PROVE  Spec => [](LoaderInv /\ UserInv)
<1> QED
    BY LoaderInit, LoaderStep, UserInit, UserStep, PTL DEF Spec

\* While a file is open on a control device, the host controller with its
\* control is not freed: neither an ioctl that was let in nor a close meets
\* freed memory.
THEOREM OpenFilesKeepController ==
    ASSUME OnlyFirstFails
    PROVE  Spec => []OpenFilesLive
<1>1. ASSUME LoaderInv, UserInv PROVE OpenFilesLive
  <2>1. node \subseteq alive
      BY <1>1 DEF LoaderInv, TypeOK, PartsInv, HasPart, Probing, Removing
  <2> QED
      BY <1>1, <2>1 DEF UserInv, OpenFilesLive
<1> QED
    BY <1>1, UserInvariance, PTL

\* virtusb_module_exit, and the labels of virtusb_module_init, leave no device
\* attached to a root hub that is freed.
THEOREM DevicesHaveLiveHub ==
    ASSUME OnlyFirstFails
    PROVE  Spec => []AttachedHubLive
<1>1. UserInv => AttachedHubLive
    BY DEF UserInv, AttachedHubLive
<1> QED
    BY <1>1, UserInvariance, PTL

\* The WARN_ON of virtusb_object_manager_exit does not fire.
THEOREM RegistryEmpty ==
    ASSUME OnlyFirstFails
    PROVE  Spec => []RegistryEmptyAtExit
<1>1. UserInv => RegistryEmptyAtExit
    BY DEF UserInv, Unused, RegistryEmptyAtExit, At, Exiting, Late
<1> QED
    BY <1>1, UserInvariance, PTL
=============================================================================
