------------------------------- MODULE DvpDisks -------------------------------
(***************************************************************************)
(* The disk manager of the DVP provider (internal/provisioning/dvp/        *)
(* disks.go), used by several goroutines of a test: create, delete,        *)
(* attach, detach and resize a disk, each a request followed by a poll     *)
(* (pollObject) until the awaited state, a terminal phase or the end of    *)
(* the context.                                                            *)
(*                                                                         *)
(* Disks and nodes are named by sequences of name parts; the name of an    *)
(* attachment joins both.  Names longer than 63 characters end in a hash   *)
(* and are not modelled.  The virtualization controllers are external.     *)
(***************************************************************************)
EXTENDS Naturals, Sequences

CONSTANTS
    Callers,            \* goroutines that use the disk manager
    Disks, NodeNames,   \* names of disks and nodes
    Sizes,              \* sizes a caller asks for
    MaxOps              \* bound: operations in a behaviour

ASSUME DisksAssumption ==
    /\ \A x \in Disks \cup NodeNames : x \in Seq(STRING)
    /\ Sizes \subseteq Nat \ {0} /\ MaxOps \in Nat

VARIABLES
    vd,        \* VirtualDisks
    att,       \* VirtualMachineBlockDeviceAttachments, by name
    call,      \* the operation each caller is in
    stale,     \* callers that would write a disk that changed since their Get
    ops,       \* operations so far
    sure,      \* history: callers whose attachment nobody deleted since they saw it
    mounted,   \* history: pairs reported attached, their attachment not deleted since
    early      \* history: a resize reported before the disk had grown

objVars == <<vd, att, stale>>
history == <<sure, mounted, early>>
diskVars == <<objVars, call, ops, history>>

attachmentName(d, n) == d \o n

Pairs == Disks \X NodeNames
Keys == {attachmentName(p[1], p[2]) : p \in Pairs}

NoVd == [phase |-> "None", size |-> 0, capacity |-> 0, deleting |-> FALSE]
NoAtt == [phase |-> "None", binds |-> {}, deleting |-> FALSE]

Idle == [op |-> "none", at |-> "idle", disk |-> <<>>, node |-> <<>>, size |-> 0]

DiskInit ==
    /\ vd = [d \in Disks |-> NoVd]
    /\ att = [k \in Keys |-> NoAtt]
    /\ call = [c \in Callers |-> Idle]
    /\ stale = {} /\ ops = 0
    /\ sure = {} /\ mounted = {} /\ early = FALSE

-----------------------------------------------------------------------------
(* Requests.                                                               *)

\* Every write of a disk gives it a new resourceVersion.
SetVd(d, v) ==
    /\ vd' = [vd EXCEPT ![d] = v]
    /\ stale' = stale \cup {c \in Callers : call[c].at = "update" /\ call[c].disk = d}

SetAtt(k, a) == att' = [att EXCEPT ![k] = a]

Begins(c) == call[c].at = "idle" /\ ops < MaxOps /\ ops' = ops + 1

To(c, o, p, d, n, s) ==
    call' = [call EXCEPT ![c] = [op |-> o, at |-> p, disk |-> d, node |-> n, size |-> s]]

Goto(c, p) == call' = [call EXCEPT ![c].at = p]
Returns(c) == call' = [call EXCEPT ![c] = Idle]

\* The request is answered, or its answer is lost and the operation fails.
CreateDisk(c, d, s) ==
    /\ Begins(c)
    /\ \/ /\ vd[d].phase = "None"
          /\ SetVd(d, [NoVd EXCEPT !.phase = "Pending", !.size = s])
          /\ To(c, "create", "poll", d, <<>>, s) \/ Returns(c)
       \/ UNCHANGED <<vd, stale>> /\ Returns(c)
    /\ UNCHANGED <<att, history>>

\* NotFound is as good as a deletion.
DeleteDisk(c, d) ==
    /\ Begins(c)
    /\ \/ /\ vd[d].phase # "None"
          /\ SetVd(d, [vd[d] EXCEPT !.deleting = TRUE])
          /\ To(c, "delete", "poll", d, <<>>, 0) \/ Returns(c)
       \/ /\ vd[d].phase = "None" /\ UNCHANGED <<vd, stale>>
          /\ To(c, "delete", "poll", d, <<>>, 0)
       \/ UNCHANGED <<vd, stale>> /\ Returns(c)
    /\ UNCHANGED <<att, history>>

AttachDisk(c, d, n) ==
    /\ Begins(c)
    /\ LET k == attachmentName(d, n) IN
       \/ /\ att[k].phase = "None"
          /\ SetAtt(k, [NoAtt EXCEPT !.phase = "Pending", !.binds = {<<d, n>>}])
          /\ To(c, "attach", "poll", d, n, 0) \/ Returns(c)
       \/ /\ att[k].phase # "None" /\ UNCHANGED att
          /\ To(c, "attach", "verify", d, n, 0)
       \/ UNCHANGED att /\ Returns(c)
    /\ sure' = IF att'[attachmentName(d, n)] # att[attachmentName(d, n)]
               THEN sure \cup {c} ELSE sure \ {c}
    /\ UNCHANGED <<vd, stale, mounted, early>>

\* Mutant: an attachment of that name is as good as ours.
AttachVerifyBlind(c) ==
    /\ call[c].at = "verify"
    /\ Goto(c, "poll") \/ Returns(c)
    /\ sure' = sure \cup {c}
    /\ UNCHANGED <<objVars, ops, mounted, early>>

\* AlreadyExists: the attachment must bind this disk to this machine.
AttachVerify(c) ==
    /\ call[c].at = "verify"
    /\ LET k == attachmentName(call[c].disk, call[c].node) IN
       \/ att[k].binds = {<<call[c].disk, call[c].node>>} /\ Goto(c, "poll")
       \/ Returns(c)
    /\ sure' = IF att[attachmentName(call[c].disk, call[c].node)].deleting
               THEN sure ELSE sure \cup {c}
    /\ UNCHANGED <<objVars, ops, mounted, early>>

\* The attachment is found by its name alone.
DetachDisk(c, d, n) ==
    /\ Begins(c)
    /\ mounted' = {p \in mounted : attachmentName(p[1], p[2]) # attachmentName(d, n)}
    /\ sure' = {e \in sure : attachmentName(call[e].disk, call[e].node) # attachmentName(d, n)}
    /\ LET k == attachmentName(d, n) IN
       \/ /\ att[k].phase # "None"
          /\ SetAtt(k, [att[k] EXCEPT !.deleting = TRUE])
          /\ To(c, "detach", "poll", d, n, 0) \/ Returns(c)
       \/ /\ att[k].phase = "None" /\ UNCHANGED att
          /\ To(c, "detach", "poll", d, n, 0)
       \/ UNCHANGED att /\ Returns(c)
    /\ UNCHANGED <<vd, stale, early>>

\* A provisioned disk that has not grown to the size.
Short(d, s) == vd[d].capacity > 0 /\ vd[d].capacity < s

\* The Get: an equal size is success, a smaller one an error.
ResizeDisk(c, d, s) ==
    /\ Begins(c)
    /\ \/ /\ vd[d].phase # "None" /\ s = vd[d].size
          /\ early' = (early \/ Short(d, s))
          /\ Returns(c) /\ UNCHANGED stale
       \/ /\ vd[d].phase # "None" /\ s > vd[d].size
          /\ To(c, "resize", "update", d, <<>>, s)
          /\ stale' = stale \ {c} /\ UNCHANGED early
       \/ Returns(c) /\ UNCHANGED <<early, stale>>
    /\ UNCHANGED <<vd, att, sure, mounted>>

\* Mutant: the size is patched into whatever is there.
ResizeUpdateBlind(c) ==
    /\ call[c].at = "update"
    /\ LET d == call[c].disk IN
       \/ /\ vd[d].phase # "None"
          /\ SetVd(d, [vd[d] EXCEPT !.size = call[c].size])
          /\ Goto(c, "poll")
       \/ UNCHANGED <<vd, stale>> /\ Returns(c)
    /\ UNCHANGED <<att, ops, history>>

\* The Update carries the resourceVersion of the Get.
ResizeUpdate(c) ==
    /\ call[c].at = "update"
    /\ LET d == call[c].disk IN
       \/ /\ c \notin stale
          /\ SetVd(d, [vd[d] EXCEPT !.size = call[c].size])
          /\ Goto(c, "poll") \/ Returns(c)
       \/ UNCHANGED <<vd, stale>> /\ Returns(c)
    /\ UNCHANGED <<att, ops, history>>

-----------------------------------------------------------------------------
(* pollObject.                                                             *)

\* The capacity in the status if there is one, else the size in the spec.
resizeApplied(v, s) == IF v.capacity > 0 THEN v.capacity >= s ELSE v.size >= s

Reached(c) ==
    LET v == vd[call[c].disk]
        a == att[attachmentName(call[c].disk, call[c].node)]
    IN CASE call[c].op = "create" -> v.phase \in {"Ready", "WaitForFirstConsumer"}
         [] call[c].op = "delete" -> v.phase = "None"
         [] call[c].op = "attach" -> a.phase = "Attached"
         [] call[c].op = "detach" -> a.phase = "None"
         [] call[c].op = "resize" -> /\ v.phase \in {"Ready", "WaitForFirstConsumer"}
                                     /\ resizeApplied(v, call[c].size)

PollDone(c) ==
    /\ call[c].at = "poll" /\ Reached(c)
    /\ Returns(c)
    /\ mounted' = IF call[c].op = "attach" /\ c \in sure
                  THEN mounted \cup {<<call[c].disk, call[c].node>>} ELSE mounted
    /\ early' = (early \/ (call[c].op = "resize" /\ Short(call[c].disk, call[c].size)))
    /\ UNCHANGED <<objVars, ops, sure>>

\* A terminal phase, or the end of the context.
PollFails(c) ==
    /\ call[c].at = "poll"
    /\ Returns(c)
    /\ UNCHANGED <<objVars, ops, history>>

-----------------------------------------------------------------------------
(* The virtualization controllers.                                         *)

Bound(d) == \E k \in Keys : \E n \in NodeNames : <<d, n>> \in att[k].binds

DiskProvisioned(d) ==
    /\ \/ /\ vd[d].phase = "Pending"
          /\ \/ SetVd(d, [vd[d] EXCEPT !.phase = "Ready", !.capacity = vd[d].size])
             \/ SetVd(d, [vd[d] EXCEPT !.phase = "WaitForFirstConsumer"])
             \/ SetVd(d, [vd[d] EXCEPT !.phase = "Failed"])
       \/ /\ vd[d].phase = "WaitForFirstConsumer" /\ Bound(d)
          /\ SetVd(d, [vd[d] EXCEPT !.phase = "Ready", !.capacity = vd[d].size])
    /\ UNCHANGED <<att, call, ops, history>>

Expanded(d) ==
    /\ vd[d].capacity < vd[d].size
    /\ \/ vd[d].phase = "Ready" /\ SetVd(d, [vd[d] EXCEPT !.phase = "Resizing"])
       \/ /\ vd[d].phase = "Resizing"
          /\ SetVd(d, [vd[d] EXCEPT !.phase = "Ready", !.capacity = vd[d].size])
    /\ UNCHANGED <<att, call, ops, history>>

DiskGone(d) ==
    /\ vd[d].deleting /\ ~Bound(d)
    /\ SetVd(d, NoVd)
    /\ UNCHANGED <<att, call, ops, history>>

Attaches(k) ==
    /\ att[k].phase = "Pending"
    /\ \/ /\ \A p \in att[k].binds : vd[p[1]].phase = "Ready"
          /\ SetAtt(k, [att[k] EXCEPT !.phase = "Attached"])
       \/ SetAtt(k, [att[k] EXCEPT !.phase = "Failed"])
    /\ UNCHANGED <<vd, stale, call, ops, history>>

AttachmentGone(k) ==
    /\ att[k].deleting
    /\ SetAtt(k, NoAtt)
    /\ UNCHANGED <<vd, stale, call, ops, history>>

OpsFinished == ops = MaxOps /\ (\A c \in Callers : call[c].at = "idle") /\ UNCHANGED diskVars

Operation(c) ==
    \/ \E d \in Disks : DeleteDisk(c, d)
    \/ \E d \in Disks, s \in Sizes : CreateDisk(c, d, s) \/ ResizeDisk(c, d, s)
    \/ \E d \in Disks, n \in NodeNames : AttachDisk(c, d, n) \/ DetachDisk(c, d, n)
    \/ AttachVerify(c) \/ ResizeUpdate(c) \/ PollDone(c) \/ PollFails(c)

Controllers ==
    \/ \E d \in Disks : DiskProvisioned(d) \/ Expanded(d) \/ DiskGone(d)
    \/ \E k \in Keys : Attaches(k) \/ AttachmentGone(k)

DiskNext == (\E c \in Callers : Operation(c)) \/ Controllers \/ OpsFinished

DiskSpec == DiskInit /\ [][DiskNext]_diskVars

-----------------------------------------------------------------------------
(* Properties.                                                             *)

\* "PVC expansion only grows": the shrink check and the write are two requests,
\* and still no disk is ever asked to shrink, however many resizes run at once.
SizesGrow ==
    [][\A d \in Disks : vd[d].phase # "None" /\ vd'[d].phase # "None" =>
                            vd'[d].size >= vd[d].size]_diskVars

\* A disk that AttachDisk reported attached (with no detach of that attachment
\* while it polled) is attached to that very node, and stays so until somebody detaches a pair of the same attachment name, whatever
\* else is attached, detached, resized or deleted meanwhile: an attachment that
\* already exists is adopted only if it binds this disk to this machine.
MountsStay ==
    \A p \in mounted :
        LET a == att[attachmentName(p[1], p[2])] IN a.phase = "Attached" /\ a.binds = {p}

\* "blocks until the disk reports the new capacity" (DiskManager.ResizeDisk).
ResizeReports == ~early

===============================================================================
