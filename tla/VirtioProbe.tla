------------------------------- MODULE VirtioProbe -------------------------------
(***************************************************************************)
(* Discovery and bring-up of virtio devices (drivers/virtio/mod.rs, mmio.rs *)
(* and the init functions of blk.rs, net.rs and gpu.rs), with the registries *)
(* the drivers end up in (drivers/block, drivers/net, display).  One step   *)
(* per transport call or command, the device's answer included.             *)
(***************************************************************************)
EXTENDS Display, Bitwise

CONSTANTS
  QUEUE_SIZE,
  GPU_DEFAULT,   \* size of a scanout that reports none
  SlotSets       \* contents of the mmio slots: sequences of devices
\* A device is [magic, id, version, features, max, refuses, mode]: max is the limit of its
\* queues, refuses the requests it answers with an error, mode the size of a GPU's scanout.

VARIABLES
  slots,      \* the devices
  slot,       \* probe_all's loop: the slot at hand
  phase,      \* progress of the init function called for it
  regs,       \* each device's registers: status bits, features, queue sizes, rx buffers posted
  pixels,     \* the framebuffer of the GPU being initialised
  blocks, nets, gpu_dev,   \* DEVICES, DEVICES, GPU_DEV: [slot, monitor]
  dropped,    \* live devices whose driver memory has been freed
  blkfs,      \* what /blk describes: [slot, sector0]
  host        \* what the GPU's scanout shows

probevars == <<slots, slot, phase, regs, pixels, blocks, nets, gpu_dev, dropped, blkfs, host>>

Off == [status |-> {}, features |-> {}, queues |-> <<>>, avail |-> 0]

ProbeInit ==
  /\ slots = None /\ slot = 1 /\ phase = None /\ regs = <<>>
  /\ pixels = None
  /\ blocks = <<>> /\ nets = <<>> /\ gpu_dev = None
  /\ dropped = {} /\ blkfs = None /\ host = None

(* init_late: probe_all finds some set of slots. *)
ProbeStart ==
  /\ slots' \in SlotSets
  /\ phase' = "probe"
  /\ regs' = [i \in DOMAIN slots' |-> Off]
  /\ UNCHANGED <<slot, pixels, blocks, nets, gpu_dev, dropped, blkfs, host>>

Device == slots[slot]
Drivers == {"blk", "net", "gpu"}

Goto(p) == phase' = p /\ UNCHANGED <<slots, slot>>
NextSlot == slot' = slot + 1 /\ phase' = "probe" /\ UNCHANGED slots
Registries == <<pixels, blocks, nets, gpu_dev, dropped, blkfs, host>>

(* probe_all: what Transport::probe does not recognise, and devices without a *)
(* driver, are passed over.                                                   *)
Probe ==
  /\ phase = "probe" /\ slot \in DOMAIN slots
  /\ IF Device.magic /\ Device.id \in Drivers THEN Goto("begin") ELSE NextSlot
  /\ UNCHANGED <<regs, Registries, displayvars>>

(* Transport::init_begin: reset, ACKNOWLEDGE, DRIVER. *)
InitBegin ==
  /\ phase = "begin"
  /\ IF Device.version \in {1, 2}
     THEN regs' = [regs EXCEPT ![slot] = [Off EXCEPT !.status = {"ack", "driver"}]] /\ Goto("features")
     ELSE UNCHANGED regs /\ NextSlot
  /\ UNCHANGED <<Registries, displayvars>>

(* read_features and write_features; the status is not read back. *)
Features ==
  /\ phase = "features"
  /\ regs' = [regs EXCEPT ![slot].features = Device.features \cap {"version_1"},
                          ![slot].status = @ \cup {"features_ok"}]
  /\ Goto("queues")
  /\ UNCHANGED <<Registries, displayvars>>

(* QUEUE_SIZE.min(max as u16) *)
QueueSize(max) == Min({QUEUE_SIZE, max % 65536})

(* queue_configure; a legacy device (version 1) has none of the registers. *)
Configure(r, size) == IF Device.version = 2 THEN [r EXCEPT !.queues = Append(@, size)] ELSE r

\* Mutant: a NIC goes live before its receive buffers are posted.
FirstQueueNoRx ==
  /\ phase = "queues"
  /\ IF Device.max = 0 THEN NextSlot /\ UNCHANGED regs
     ELSE /\ regs' = [regs EXCEPT ![slot] = Configure(@, QueueSize(Device.max))]
          /\ Goto(IF Device.id = "net" THEN "tx_queue" ELSE "driver_ok")
  /\ UNCHANGED <<Registries, displayvars>>

(* The request or control queue; for a NIC the receive queue, which is filled next. *)
FirstQueue ==
  /\ phase = "queues"
  /\ IF Device.max = 0 THEN NextSlot /\ UNCHANGED regs
     ELSE /\ regs' = [regs EXCEPT ![slot] = Configure(@, QueueSize(Device.max))]
          /\ Goto(IF Device.id = "net" THEN "post_rx" ELSE "driver_ok")
  /\ UNCHANGED <<Registries, displayvars>>

PostRx ==
  /\ phase = "post_rx"
  /\ regs' = [regs EXCEPT ![slot].avail = QueueSize(Device.max)]
  /\ Goto("tx_queue")
  /\ UNCHANGED <<Registries, displayvars>>

(* The transmit queue, sized like the receive queue. *)
TxQueue ==
  /\ phase = "tx_queue"
  /\ regs' = [regs EXCEPT ![slot] = Configure(@, QueueSize(Device.max))]
  /\ Goto("driver_ok")
  /\ UNCHANGED <<Registries, displayvars>>

GpuCommands ==
  <<"get_display_info", "create_2d", "attach_backing", "set_scanout", "transfer", "resource_flush">>

DriverOk ==
  /\ phase = "driver_ok"
  /\ regs' = [regs EXCEPT ![slot].status = @ \cup {"driver_ok"}]
  /\ Goto(IF Device.id = "gpu" THEN GpuCommands[1] ELSE "register")
  /\ UNCHANGED <<Registries, displayvars>>

-----------------------------------------------------------------------------
\* Mutant: /blk is rewritten for every disk.
RegisterEach ==
  /\ phase = "register"
  /\ \/ /\ Device.id = "net"
        /\ nets' = Append(nets, slot)
        /\ NextSlot /\ UNCHANGED <<blocks, blkfs>>
     \/ /\ Device.id = "blk"
        /\ blocks' = Append(blocks, slot)
        /\ IF regs[slot].queues = <<>> THEN Goto("spin") /\ UNCHANGED blkfs
           ELSE NextSlot /\ blkfs' = [slot |-> slot, sector0 |-> "read" \notin Device.refuses]
        /\ UNCHANGED nets
  /\ UNCHANGED <<regs, pixels, gpu_dev, dropped, host, displayvars>>

(* block::register: the first device is shown in /blk, its first sector read;   *)
(* net::register.  A read from a device without a queue waits for ever.         *)
Register ==
  /\ phase = "register"
  /\ \/ /\ Device.id = "net"
        /\ nets' = Append(nets, slot)
        /\ NextSlot /\ UNCHANGED <<blocks, blkfs>>
     \/ /\ Device.id = "blk"
        /\ blocks' = Append(blocks, slot)
        /\ IF blocks # <<>> THEN NextSlot /\ UNCHANGED blkfs
           ELSE IF regs[slot].queues = <<>> THEN Goto("spin") /\ UNCHANGED blkfs
           ELSE NextSlot /\ blkfs' = [slot |-> slot, sector0 |-> "read" \notin Device.refuses]
        /\ UNCHANGED nets
  /\ UNCHANGED <<regs, pixels, gpu_dev, dropped, host, displayvars>>

GpuSize == [width  |-> IF Device.mode.width = 0 THEN GPU_DEFAULT.width ELSE Device.mode.width,
            height |-> IF Device.mode.height = 0 THEN GPU_DEFAULT.height ELSE Device.mode.height]

(* The test pattern, in B, G, R, X order. *)
Pattern(fb) ==
  [fb EXCEPT !.mem = [i \in DOMAIN @ |->
     LET x == i % fb.stride
         y == i \div fb.stride
     IN  <<(x ^^ y) % 256, (y * 255) \div fb.height, (x * 255) \div fb.width, 0>>]]

(* One command of gpu::init.  A refused one ends it, with the device live and its *)
(* queue freed; the results of the last two are not looked at.                    *)
GpuCommand ==
  \E k \in DOMAIN GpuCommands :
    /\ phase = GpuCommands[k]
    /\ IF regs[slot].queues = <<>> THEN Goto("spin") /\ UNCHANGED <<pixels, dropped, host>>
       ELSE IF phase \in Device.refuses /\ k <= 4
       THEN NextSlot /\ dropped' = dropped \cup {slot} /\ UNCHANGED <<pixels, host>>
       ELSE /\ Goto(IF k < 6 THEN GpuCommands[k + 1] ELSE "monitor")
            /\ pixels' = CASE k = 1 -> NewFramebuffer(GpuSize.width, GpuSize.height, GpuSize.width, "bgra")
                          [] k = 4 -> Pattern(pixels)
                          [] OTHER -> pixels
            /\ host' = IF k = 6 /\ Device.refuses \cap {"transfer", "resource_flush"} = {}
                       THEN pixels ELSE host
            /\ UNCHANGED dropped
  /\ UNCHANGED <<regs, blocks, nets, gpu_dev, blkfs, displayvars>>

(* register_as_monitor: the monitor shares the driver's pixels; GPU_DEV keeps one driver. *)
GpuMonitor ==
  /\ phase = "monitor"
  /\ monitors' = Append(monitors, Monitor("physical", pixels))
  /\ gpu_dev' = [slot |-> slot, monitor |-> Len(monitors) + 1]
  /\ dropped' = IF gpu_dev = None THEN dropped ELSE dropped \cup {gpu_dev.slot}
  /\ NextSlot
  /\ UNCHANGED <<regs, pixels, blocks, nets, blkfs, host, layers, drawings, drawn>>

ProbeNext ==
  \/ Probe \/ InitBegin \/ Features \/ FirstQueue \/ PostRx \/ TxQueue \/ DriverOk
  \/ Register \/ GpuCommand \/ GpuMonitor

ProbeDone == phase = "probe" /\ slot > Len(slots)

-----------------------------------------------------------------------------
(* cmd_gpu: four vertical bars, the last as wide as what is left, then a flush. *)
Bars(fb) ==
  [fb EXCEPT !.mem = [i \in DOMAIN @ |->
     LET bw == fb.width \div 4
         x  == i % fb.stride
         band == IF x >= 3 * bw THEN 4 ELSE x \div bw + 1
     IN  <<<<0, 0, 255, 0>>, <<0, 255, 0, 0>>, <<255, 0, 0, 0>>, <<255, 255, 255, 0>>>>[band]]]

CmdGpu ==
  /\ gpu_dev # None
  /\ monitors' = [monitors EXCEPT ![gpu_dev.monitor].fb = Bars(@)]
  /\ host' = IF slots[gpu_dev.slot].refuses \cap {"transfer", "resource_flush"} = {}
             THEN monitors'[gpu_dev.monitor].fb ELSE host
  /\ drawn' = Nothing
  /\ UNCHANGED <<slots, slot, phase, regs, pixels, blocks, nets, gpu_dev, dropped, blkfs, layers, drawings>>

-----------------------------------------------------------------------------
Registered(i) ==
  \/ i \in Range(blocks) \cup Range(nets)
  \/ gpu_dev # None /\ gpu_dev.slot = i

(* A device is live only after the whole handshake: features accepted, every queue   *)
(* its driver uses configured within the device's limit, a NIC's receive queue full   *)
(* of buffers.  A live device belongs to the driver being initialised or to a          *)
(* registered one, unless a GPU refused a command or was replaced by a later GPU.      *)
DeviceReadyWhenLive ==
  \A i \in DOMAIN regs : "driver_ok" \in regs[i].status =>
    LET d == slots[i] IN
    /\ {"ack", "driver", "features_ok"} \subseteq regs[i].status
    /\ regs[i].features \subseteq d.features
    /\ d.version = 2 => /\ Len(regs[i].queues) = IF d.id = "net" THEN 2 ELSE 1
                        /\ \A q \in Range(regs[i].queues) : q \in 1 .. Min({QUEUE_SIZE, d.max})
    /\ d.id = "net" => regs[i].avail = QueueSize(d.max)
    /\ i = slot \/ Registered(i) \/ i \in dropped
    /\ i \in dropped => d.id = "gpu"

(* When probing is over each registry holds exactly the working devices of its class  *)
(* in slot order, /blk describes the first disk, every GPU that accepted its commands   *)
(* has a monitor behind the first one, and a machine with one GPU has none of its       *)
(* memory freed.                                                                        *)
DevicesReported ==
  slots # None /\ slot > Len(slots) =>
    LET Working(id) ==
          SelectSeq([i \in DOMAIN slots |-> i],
                    LAMBDA i : LET d == slots[i] IN
                      d.magic /\ d.id = id /\ d.version \in {1, 2} /\ d.max > 0)
        gpus == SelectSeq(Working("gpu"),
                          LAMBDA i : slots[i].refuses \cap Range(SubSeq(GpuCommands, 1, 4)) = {})
    IN  /\ blocks = Working("blk")
        /\ nets = Working("net")
        /\ blkfs = IF blocks = <<>> THEN None
                   ELSE [slot |-> blocks[1], sector0 |-> "read" \notin slots[blocks[1]].refuses]
        /\ Len(monitors) = 1 + Len(gpus)
        /\ gpu_dev = IF gpus = <<>> THEN None ELSE [slot |-> Last(gpus), monitor |-> Len(monitors)]
        /\ dropped = Range(Working("gpu")) \ (IF gpus = <<>> THEN {} ELSE {Last(gpus)})
=============================================================================
