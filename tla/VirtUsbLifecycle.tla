-------------------------- MODULE VirtUsbLifecycle --------------------------
(***************************************************************************)
(* Loading and unloading the module (kernel/src/virtusb_module.c), probe   *)
(* and remove of its host controllers (virtusb_hcd.c) and the life of the  *)
(* control devices (virtusb_control.c), with user space at work on every   *)
(* control device that already or still exists.                            *)
(*                                                                         *)
(* One thread, the loader, runs virtusb_module_init and _exit; a file      *)
(* stands for the thread that uses it.  Here an ioctl takes effect in one  *)
(* step: how ioctls meet each other is the subject of VirtUsbTopology, and *)
(* the transfers are that of VirtUsbBackend.                               *)
(***************************************************************************)
EXTENDS Integers, FiniteSets

CONSTANTS
    HcdCount,   \* the module parameter hcd_count
    MayFail,    \* instances whose creation may fail
    Files,      \* files of user space
    Devices,    \* virtual devices there may be at a time, numbered
    NoInstance

Instances == 0..(HcdCount - 1)

ASSUME LifecycleAssumption ==
    /\ HcdCount \in 1..31       \* VIRTUSB_MAX_HCD_COUNT
    /\ MayFail \subseteq Instances
    /\ NoInstance \notin Instances

VARIABLES
    pc,         \* the loader's place in init or exit
    going,      \* whether the module is being unloaded (MODULE_STATE_GOING)
    held,       \* resources of the module that are held
    created,    \* virtusb_hcd_created_count
    alive,      \* instances whose struct usb_hcd, and all in it, is allocated
    added,      \* instances the USB core knows (usb_add_hcd)
    callback,   \* instances with a status_changed callback
    node,       \* instances with a character device
    active,     \* instances whose control is active
    file,       \* each file: the instance it is open on, and whether in an ioctl
    registry,   \* devices in the object registry
    peer        \* the instance whose root hub a device is attached to

instanceVars == <<alive, added, callback, node, active>>
userVars == <<file, registry, peer>>
vars == <<pc, going, held, created, instanceVars, userVars>>

Places == {"manager_init", "devices", "control", "driver", "create", "add",
           "install", "cdev", "activate", "created", "loaded", "shutdown",
           "destroy", "deactivate", "stop", "remove", "undriver", "uncontrol",
           "free", "manager_exit", "gone"}

Closed == [at |-> NoInstance, busy |-> FALSE]

At(p) == pc = p

Init ==
    /\ pc = "manager_init" /\ going = FALSE /\ held = {} /\ created = 0
    /\ alive = {} /\ added = {} /\ callback = {} /\ node = {} /\ active = {}
    /\ file = [f \in Files |-> Closed]
    /\ registry = {}
    /\ peer = [d \in Devices |-> NoInstance]

-----------------------------------------------------------------------------
(* virtusb_module_init and its labels.                                     *)

\* A resource of the module is acquired, or what was acquired before is undone
\* from the label on.
Acquire(p, r, to, label) ==
    /\ At(p)
    /\ \/ held' = held \cup {r} /\ pc' = to
       \/ held' = held /\ pc' = label
    /\ UNCHANGED <<going, created, instanceVars, userVars>>

ManagerInit ==
    /\ At("manager_init")
    /\ pc' = "devices"
    /\ UNCHANGED <<going, held, created, instanceVars, userVars>>

\* kcalloc, virtusb_control_register, virtusb_hcd_driver_register.
AllocDevices == Acquire("devices", "devices", "control", "manager_exit")
ControlRegister == Acquire("control", "control", "driver", "free")

\* Slip: a driver that could not be registered leaves the control plane.
DriverRegisterSkips == Acquire("driver", "driver", "create", "free")

DriverRegister == Acquire("driver", "driver", "create", "uncontrol")

\* The loop over the instances; instance `created' is the one being probed.
\* usb_create_hcd, virtusb_backend_init, virtusb_root_hub_init, set_drvdata.
CreateHcd ==
    /\ At("create")
    /\ \/ /\ created = HcdCount
          /\ pc' = "loaded"
          /\ UNCHANGED alive
       \/ /\ created < HcdCount
          /\ alive' = alive \cup {created}
          /\ pc' = "add"
       \/ /\ created \in MayFail
          /\ pc' = "destroy"
          /\ UNCHANGED alive
    /\ UNCHANGED <<going, held, created, added, callback, node, active, userVars>>

\* usb_add_hcd; if that fails, put_hcd.
AddHcd ==
    /\ At("add")
    /\ \/ /\ added' = added \cup {created}
          /\ pc' = "install"
          /\ UNCHANGED alive
       \/ /\ created \in MayFail
          /\ alive' = alive \ {created}
          /\ pc' = "destroy"
          /\ UNCHANGED added
    /\ UNCHANGED <<going, held, created, callback, node, active, userVars>>

\* The callback is installed once the root hub is registered.
InstallCallback ==
    /\ At("install")
    /\ callback' = callback \cup {created}
    /\ pc' = "cdev"
    /\ UNCHANGED <<going, held, created, alive, added, node, active, userVars>>

\* virtusb_control_instance_create up to device_create, from when on the device
\* has a node and can be opened; if it fails, remove_hcd and put_hcd.
CreateControl ==
    /\ At("cdev")
    /\ \/ /\ node' = node \cup {created}
          /\ pc' = "activate"
          /\ UNCHANGED <<alive, added, callback>>
       \/ /\ created \in MayFail
          /\ added' = added \ {created}
          /\ callback' = callback \ {created}
          /\ alive' = alive \ {created}
          /\ pc' = "destroy"
          /\ UNCHANGED node
    /\ UNCHANGED <<going, held, created, active, userVars>>

ActivateControl ==
    /\ At("activate")
    /\ active' = active \cup {created}
    /\ pc' = "created"
    /\ UNCHANGED <<going, held, created, alive, added, callback, node, userVars>>

HcdCreated ==
    /\ At("created")
    /\ created' = created + 1
    /\ pc' = "create"
    /\ UNCHANGED <<going, held, instanceVars, userVars>>

-----------------------------------------------------------------------------
(* virtusb_module_exit.                                                    *)

\* Slip: the module can be unloaded while control devices are open.
UnloadAnyway ==
    /\ At("loaded")
    /\ pc' = "shutdown" /\ going' = TRUE
    /\ UNCHANGED <<held, created, instanceVars, userVars>>

\* The kernel unloads a module nobody refers to; open files refer to it
\* (file_operations.owner).
Unload ==
    /\ At("loaded")
    /\ \A f \in Files : file[f] = Closed
    /\ pc' = "shutdown" /\ going' = TRUE
    /\ UNCHANGED <<held, created, instanceVars, userVars>>

\* Slip: a device that is attached is not destroyed, and found again.
ShutdownUnforced ==
    /\ At("shutdown")
    /\ \/ registry = {} /\ pc' = "destroy" /\ UNCHANGED registry
       \/ \E d \in registry :
             /\ \A e \in registry : d <= e
             /\ registry' = IF peer[d] = NoInstance THEN registry \ {d} ELSE registry
             /\ UNCHANGED pc
    /\ UNCHANGED <<going, held, created, instanceVars, file, peer>>

\* Slip: only the first device is destroyed.
ShutdownFirst ==
    /\ At("shutdown")
    /\ \/ registry = {} /\ UNCHANGED <<registry, peer>>
       \/ \E d \in registry :
             /\ \A e \in registry : d <= e
             /\ registry' = registry \ {d}
             /\ peer' = [peer EXCEPT ![d] = NoInstance]
    /\ pc' = "destroy"
    /\ UNCHANGED <<going, held, created, instanceVars, file>>

\* Slip: devices are unregistered and stay attached.
ShutdownAttached ==
    /\ At("shutdown")
    /\ registry' = {}
    /\ pc' = "destroy"
    /\ UNCHANGED <<going, held, created, instanceVars, file, peer>>

\* virtusb_device_shutdown_all: the first device is destroyed by force, until
\* there is none.
ShutdownAll ==
    /\ At("shutdown")
    /\ \/ registry = {} /\ pc' = "destroy" /\ UNCHANGED <<registry, peer>>
       \/ \E d \in registry :
             /\ \A e \in registry : d <= e
             /\ registry' = registry \ {d}
             /\ peer' = [peer EXCEPT ![d] = NoInstance]
             /\ UNCHANGED pc
    /\ UNCHANGED <<going, held, created, instanceVars, file>>

\* Slip: one instance too many.
DestroyTooMany ==
    /\ At("destroy")
    /\ \/ created < 0 /\ pc' = "undriver" /\ UNCHANGED created
       \/ created >= 0 /\ pc' = "deactivate" /\ created' = created - 1
    /\ UNCHANGED <<going, held, instanceVars, userVars>>

\* virtusb_module_destroy_hcds: the last instance first.
DestroyHcds ==
    /\ At("destroy")
    /\ \/ created = 0 /\ pc' = "undriver" /\ UNCHANGED created
       \/ created > 0 /\ pc' = "deactivate" /\ created' = created - 1
    /\ UNCHANGED <<going, held, instanceVars, userVars>>

\* virtusb_hcd_platform_remove: virtusb_control_instance_destroy, ...
DestroyControl ==
    /\ At("deactivate")
    /\ active' = active \ {created}
    /\ node' = node \ {created}
    /\ pc' = "stop"
    /\ UNCHANGED <<going, held, created, alive, added, callback, userVars>>

\* ... the callback and virtusb_backend_stop, ...
StopHcd ==
    /\ At("stop")
    /\ callback' = callback \ {created}
    /\ pc' = "remove"
    /\ UNCHANGED <<going, held, created, alive, added, node, active, userVars>>

\* ... usb_remove_hcd and usb_put_hcd.
RemoveHcd ==
    /\ At("remove")
    /\ added' = added \ {created}
    /\ alive' = alive \ {created}
    /\ pc' = "destroy"
    /\ UNCHANGED <<going, held, created, callback, node, active, userVars>>

GiveUp(p, r, to) ==
    /\ At(p)
    /\ held' = held \ {r}
    /\ pc' = to
    /\ UNCHANGED <<going, created, instanceVars, userVars>>

DriverUnregister == GiveUp("undriver", "driver", "uncontrol")
ControlUnregister == GiveUp("uncontrol", "control", "free")
FreeDevices == GiveUp("free", "devices", "manager_exit")

\* virtusb_object_manager_exit.
ManagerExit ==
    /\ At("manager_exit")
    /\ pc' = "gone"
    /\ UNCHANGED <<going, held, created, instanceVars, userVars>>

-----------------------------------------------------------------------------
(* User space.                                                             *)

ModuleUnchanged == UNCHANGED <<pc, going, held, created, instanceVars>>

\* virtusb_control_open; the kernel opens no device of a module that is going.
Open(f, i) ==
    /\ file[f] = Closed
    /\ i \in node /\ ~going
    /\ file' = [file EXCEPT ![f].at = i]
    /\ UNCHANGED <<registry, peer>>
    /\ ModuleUnchanged

\* virtusb_control_ioctl lets a call in while the control is active.
Ioctl(f) ==
    /\ file[f].at \in active /\ ~file[f].busy
    /\ file' = [file EXCEPT ![f].busy = TRUE]
    /\ UNCHANGED <<registry, peer>>
    /\ ModuleUnchanged

\* The ioctls that change devices, and the others; devices are attached through
\* the control device of the hub.
IoctlReturns(f) ==
    /\ file[f].busy
    /\ file' = [file EXCEPT ![f].busy = FALSE]
    /\ \/ \E d \in Devices \ registry :
             /\ registry' = registry \cup {d}
             /\ UNCHANGED peer
       \/ \E d \in registry :
             \/ /\ peer[d] = NoInstance
                /\ peer' = [peer EXCEPT ![d] = file[f].at]
                /\ UNCHANGED registry
             \/ peer' = [peer EXCEPT ![d] = NoInstance] /\ UNCHANGED registry
             \/ /\ registry' = registry \ {d}
                /\ peer' = [peer EXCEPT ![d] = NoInstance]
       \/ UNCHANGED <<registry, peer>>
    /\ ModuleUnchanged

\* virtusb_control_release.
Close(f) ==
    /\ file[f].at # NoInstance /\ ~file[f].busy
    /\ file' = [file EXCEPT ![f] = Closed]
    /\ UNCHANGED <<registry, peer>>
    /\ ModuleUnchanged

User(f) ==
    \/ \E i \in Instances : Open(f, i)
    \/ Ioctl(f) \/ IoctlReturns(f) \/ Close(f)

-----------------------------------------------------------------------------
ModuleInit ==
    \/ ManagerInit \/ AllocDevices \/ ControlRegister \/ DriverRegister
    \/ CreateHcd \/ AddHcd \/ InstallCallback \/ CreateControl
    \/ ActivateControl \/ HcdCreated

ModuleExit ==
    \/ ShutdownAll \/ DestroyHcds \/ DestroyControl \/ StopHcd \/ RemoveHcd
    \/ DriverUnregister \/ ControlUnregister \/ FreeDevices \/ ManagerExit

Next ==
    \/ ModuleInit
    \/ Unload
    \/ ModuleExit
    \/ \E f \in Files : User(f)

Spec == Init /\ [][Next]_vars

\* The loader goes on; nobody is obliged to unload the module or to use it.
FairSpec == Spec /\ WF_vars(ModuleInit \/ ModuleExit)

-----------------------------------------------------------------------------
(* Correctness.                                                            *)

\* The shape of every variable.
TypeOK ==
    /\ pc \in Places /\ going \in BOOLEAN
    /\ held \subseteq {"devices", "control", "driver"}
    /\ created \in 0..HcdCount
    /\ alive \cup added \cup callback \cup node \cup active \subseteq Instances
    /\ file \in [Files -> [at : Instances \cup {NoInstance}, busy : BOOLEAN]]
    /\ registry \subseteq Devices
    /\ peer \in [Devices -> Instances \cup {NoInstance}]

\* An open file refers to its control, which is part of the host controller:
\* that is not freed before the file is closed, and so neither an ioctl that
\* was let in nor a close touches freed memory.
OpenFilesLive == \A f \in Files : file[f].at # NoInstance => file[f].at \in alive

\* A device is attached only to a root hub that is still there: exit detaches
\* all devices before it removes the host controllers.
AttachedHubLive == \A d \in Devices : peer[d] # NoInstance => peer[d] \in alive

\* virtusb_object_manager_exit expects an empty registry:
\* WARN_ON(!xa_empty(&virtusb_objects)).
RegistryEmptyAtExit == At("manager_exit") => registry = {}

\* However far loading came, a module that is gone holds no resource and no
\* host controller.
NothingLeaks ==
    At("gone") => /\ held = {} /\ created = 0
                  /\ alive \cup added \cup callback \cup node \cup active = {}

\* Unloading, or giving up loading, comes to its end.
ExitCompletes == (At("shutdown") \/ At("destroy")) ~> At("gone")
=============================================================================
