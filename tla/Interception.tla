----------------------------- MODULE Interception -----------------------------
(***************************************************************************)
(* The life of the module: LKM/syscallinterception.c puts its hooks into   *)
(* the system call table and takes them out, LKM/communicate.c and         *)
(* LKM/notification.c build and remove what the hooks use.  Meanwhile      *)
(* other tasks make system calls and write to the /proc files.  Nothing    *)
(* stops any of them while the module comes or goes.                       *)
(*                                                                         *)
(* Code addresses are numbers: 0 is the kernel's own, g is the text of the *)
(* g-th time the module was loaded, text is the one mapped now.            *)
(***************************************************************************)
EXTENDS Naturals, Sequences, Functions

CONSTANTS
  Tasks,
  Order,     \* the hooked system calls, in the order their entries are stored
  TailCalls, \* those whose hook does nothing after the call it forwards to
  Trusting,  \* ... takes a descriptor, a name or a buffer for good unseen
  Hungry,    \* ... uses memory it may not have been given
  MaxLoads   \* how often the module is loaded

Syscalls == Range(Order)

\* Where code can be.
Text == 0 .. MaxLoads

ASSUME InterceptionAssumption ==
  /\ Order \in Seq(Syscalls) /\ Order # <<>>
  /\ TailCalls \cup Trusting \cup Hungry \subseteq Syscalls
  /\ MaxLoads \in Nat

VARIABLES
  table,      \* sys_call_table, its hooked entries
  text,       \* the load whose text is mapped, 0 when the module is out
  loads,      \* loads so far
  saved,      \* origin_X
  phase, at,  \* where lkm_init or lkm_exit is, and the entry it has reached
  buffers,    \* the vmalloc'ed buffers: "none", "all", or all but raw_data_buff
  procs,      \* loads whose /proc files are there
  socket,     \* nl_sk: "null", "open", "released"
  rules,      \* fileList_root leads to a rule
  tangled,    \* two have rebuilt or freed the list at once, and nobody since
  tpc, call,  \* a task: its place, the system call it is in
  code,       \* ... the text it runs
  freed,      \* ... the list was freed under its walk
  met,        \* ... another was at work in the list while it was
  stuck,      \* a write handler died inside proc_file_write
  \* history, read by no guard
  failed,     \* a load failed after the hooks were in
  torn,       \* per task: the module was going while it was in its text
  late        \* a list was written while the module was going

listVars   == <<rules, tangled>>
modVars    == <<table, text, loads, saved, phase, at>>
resVars    == <<buffers, procs, socket, listVars>>
taskVars   == <<tpc, call, code, freed, met, stuck>>
past       == <<failed, torn, late>>
moduleVars == <<modVars, resVars, taskVars, past>>

\* A handler: at its text, rebuilding the list, or only taking it down.
InList == {"build", "clear"}
Handler == {"write"} \cup InList
InText == {"check", "walk", "notify", "forward", "after"} \cup Handler
Inside(t) == tpc[t] \in InText \cup {"origin"}

\* Killed by a pointer that led nowhere, for want of memory, or by an argument.
Dead == {"oops", "starved", "misused"}

\* rmmod is under way; one that was killed goes no further.
Leaving == phase \in {"unhook", "destroy", "vfree", "remove", "drain", "release", "unmap"}

\* A "Slip" is a mistake that could be made in the definition below it; only
\* the experiments with the properties use it.

\* Slip: the index of the entry to store misses one.
SkipEntry(i) == i + 2
NextEntry(i) == i + 1

-----------------------------------------------------------------------------
(* insmod.                                                                 *)

\* The kernel maps a fresh copy of the module; its variables are zero.
LoadText ==
  /\ phase = "out" /\ loads < MaxLoads
  /\ loads' = loads + 1 /\ text' = loads + 1
  /\ phase' = "save"
  /\ buffers' = "none" /\ socket' = "null" /\ rules' = FALSE /\ tangled' = FALSE
  /\ UNCHANGED <<table, saved, at, procs, taskVars, past>>

\* lkm_init returns -1 and the kernel unmaps the text.  Nothing is undone: not
\* the table, not the buffers, not the files.
FailLoad ==
  /\ phase' = "out" /\ text' = 0
  /\ failed' = (failed \/ phase # "save")
  /\ UNCHANGED <<table, loads, saved, at, resVars, taskVars, torn, late>>

\* get_sys_call_table finds nothing to patch.
NoTable == phase = "save" /\ FailLoad

\* origin_X = syscall_table[__NR_X].
SaveOrigins ==
  /\ phase = "save"
  /\ saved' = table
  /\ phase' = "hook" /\ at' = 1
  /\ UNCHANGED <<table, text, loads, resVars, taskVars, past>>

\* syscall_table[__NR_X] = modified_X, one entry after the other.
Hook ==
  /\ phase = "hook"
  /\ table' = [table EXCEPT ![Order[at]] = text]
  /\ IF at = Len(Order) THEN phase' = "buffers" /\ at' = 0
                        ELSE at' = NextEntry(at) /\ UNCHANGED phase
  /\ UNCHANGED <<text, loads, saved, resVars, taskVars, past>>

\* init_communicate empties the list and allocates buffers; three of the four
\* are looked at.
AllocBuffers ==
  /\ phase = "buffers"
  /\ rules' = FALSE
  /\ buffers' \in {"all", "partial"}
  /\ phase' = "procs"
  /\ UNCHANGED <<table, text, loads, saved, at, procs, socket, tangled, taskVars, past>>

NoBuffers == phase = "buffers" /\ FailLoad

\* The /proc files and their handlers.
MakeProcs ==
  /\ phase = "procs"
  /\ procs' = procs \cup {text}
  /\ phase' = "socket"
  /\ UNCHANGED <<table, text, loads, saved, at, buffers, socket, listVars, taskVars,
                 past>>

NoProcs == phase = "procs" /\ FailLoad

\* notification_init.
OpenSocket ==
  /\ phase = "socket"
  /\ socket' = "open"
  /\ phase' = "in"
  /\ UNCHANGED <<table, text, loads, saved, at, buffers, procs, listVars, taskVars,
                 past>>

NoSocket == phase = "socket" /\ FailLoad

-----------------------------------------------------------------------------
(* rmmod.  No reference is held by a task in a hook or an open /proc file.  *)

StartUnload ==
  /\ phase = "in"
  /\ phase' = "unhook" /\ at' = 1
  /\ torn' = [t \in Tasks |-> torn[t] \/ Inside(t)]
  /\ UNCHANGED <<table, text, loads, saved, resVars, taskVars, failed, late>>

\* Slip: the entry is left hooked.
KeepHook(old) == text
PutBack(old) == old

\* syscall_table[__NR_X] = origin_X.
Unhook ==
  /\ phase = "unhook"
  /\ table' = [table EXCEPT ![Order[at]] = PutBack(saved[Order[at]])]
  /\ IF at = Len(Order) THEN phase' = "destroy" /\ at' = 0
                        ELSE at' = NextEntry(at) /\ UNCHANGED phase
  /\ UNCHANGED <<text, loads, saved, resVars, taskVars, past>>

\* Slip: the list is forgotten.
Kept(list) == list
Destroyed(list) == FALSE

\* The handlers at work in the list of load g.
AtWork(g) == {t \in Tasks : tpc[t] \in InList /\ code[t] = g}

\* destroy_list frees it also under those who walk it.
TakenDown == freed' = [t \in Tasks |-> freed[t] \/ tpc[t] \in {"walk", "notify"}]

\* cleanup_communicate: the list, also under the handlers at work in it, ...
DestroyList ==
  /\ phase = "destroy"
  /\ rules' = Destroyed(rules)
  /\ tangled' = (AtWork(text) # {})
  /\ met' = [t \in Tasks |-> met[t] \/ t \in AtWork(text)]
  /\ TakenDown
  /\ phase' = "vfree"
  /\ UNCHANGED <<table, text, loads, saved, at, buffers, procs, socket, tpc, call, code,
                 stuck, past>>

\* ... which may kill it, as what is left of a list that two were at work in may.
DestroyFaults ==
  /\ phase = "destroy" /\ (tangled \/ AtWork(text) # {})
  /\ tangled' = TRUE /\ rules' \in BOOLEAN
  /\ met' = [t \in Tasks |-> met[t] \/ t \in AtWork(text)]
  /\ TakenDown
  /\ phase' = "killed"
  /\ UNCHANGED <<table, text, loads, saved, at, buffers, procs, socket, tpc, call, code,
                 stuck, past>>

\* ... the buffers ...
FreeBuffers ==
  /\ phase = "vfree"
  /\ buffers' = "none"
  /\ phase' = "remove"
  /\ UNCHANGED <<table, text, loads, saved, at, procs, socket, listVars, taskVars, past>>

\* Slip: the files are left open to new writers.
Left(g) == procs
Removed(g) == procs \ {g}

\* ... and the files: remove_proc_entry lets nobody in any more ...
RemoveProcs ==
  /\ phase = "remove"
  /\ procs' = Removed(text)
  /\ phase' = "drain"
  /\ UNCHANGED <<table, text, loads, saved, at, buffers, socket, listVars, taskVars,
                 past>>

\* ... and waits for the handlers that are in, the dead ones included.
DrainProcs ==
  /\ phase = "drain"
  /\ \A t \in Tasks : tpc[t] \in Handler => code[t] # text
  /\ ~stuck
  /\ phase' = "release"
  /\ UNCHANGED <<table, text, loads, saved, at, resVars, taskVars, past>>

\* notification_exit; nl_sk is not reset.
ReleaseSocket ==
  /\ phase = "release"
  /\ socket' = "released"
  /\ phase' = "unmap"
  /\ UNCHANGED <<table, text, loads, saved, at, buffers, procs, listVars, taskVars,
                 past>>

UnmapText ==
  /\ phase = "unmap"
  /\ text' = 0
  /\ phase' = "out"
  /\ UNCHANGED <<table, loads, saved, at, resVars, taskVars, past>>

-----------------------------------------------------------------------------
(* A task in a system call.                                                *)

TaskGoto(t, place) == tpc' = [tpc EXCEPT ![t] = place]

\* A task is through with the module, or dead, and what it had there is gone.
Out(t, place) ==
  /\ TaskGoto(t, place)
  /\ call' = [call EXCEPT ![t] = Order[1]]
  /\ code' = [code EXCEPT ![t] = 0]
  /\ met' = [met EXCEPT ![t] = FALSE]
  /\ torn' = [torn EXCEPT ![t] = FALSE]

Away(t, place) ==
  /\ Out(t, place)
  /\ freed' = [freed EXCEPT ![t] = FALSE]

\* The text a task runs is mapped; otherwise its next instruction faults.
Mapped(t) == code[t] = text

\* The system call jumps to what the table holds; if that is the kernel's own call
\* it does not come by here.
Enter(t, s) ==
  /\ tpc[t] = "idle"
  /\ IF table[s] = 0
     THEN UNCHANGED <<tpc, call, code, torn>>
     ELSE /\ TaskGoto(t, "check")
          /\ call' = [call EXCEPT ![t] = s]
          /\ code' = [code EXCEPT ![t] = table[s]]
          /\ torn' = [torn EXCEPT ![t] = Leaving]
  /\ UNCHANGED <<modVars, resVars, freed, met, stuck, failed, late>>

\* is_fd_protected takes fget's NULL for a file; a name may be longer than its
\* page, and what getdents64 gave may be changed by another thread.
BadArgument(t) ==
  /\ tpc[t] = "check" /\ Mapped(t)
  /\ call[t] \in Trusting
  /\ Away(t, "misused")
  /\ UNCHANGED <<modVars, resVars, stuck, failed, late>>

\* No memory for a name, or for the message of sendProtectNotiMsg.
Starves(t) ==
  /\ Mapped(t)
  /\ tpc[t] = "notify" \/ (tpc[t] = "check" /\ call[t] \in Hungry)
  /\ Away(t, "starved")
  /\ UNCHANGED <<modVars, resVars, stuck, failed, late>>

\* The hook loads fileList_root; an empty list lets the call pass.
CheckRules(t) ==
  /\ tpc[t] = "check" /\ Mapped(t)
  /\ TaskGoto(t, IF rules THEN "walk" ELSE "forward")
  /\ UNCHANGED <<modVars, resVars, call, code, freed, met, stuck, past>>

\* Some rule applies to the call, or none does.
WalkRules(t) ==
  /\ tpc[t] = "walk" /\ Mapped(t) /\ ~freed[t]
  /\ TaskGoto(t, "notify") \/ TaskGoto(t, "forward")
  /\ UNCHANGED <<modVars, resVars, call, code, freed, met, stuck, past>>

\* sendnlmsg takes the node's path; without a socket the message is dropped.
NotifyRefusal(t) ==
  /\ tpc[t] = "notify" /\ Mapped(t) /\ ~freed[t]
  /\ socket # "released"
  /\ Away(t, "idle")
  /\ UNCHANGED <<modVars, resVars, stuck, failed, late>>

\* The list is gone or leads nowhere, or the socket is gone.  To follow a ring of
\* nodes for ever is to be as good as dead.
WalkFaults(t) ==
  /\ tpc[t] \in {"walk", "notify"} /\ Mapped(t)
  /\ freed[t] \/ tangled \/ (tpc[t] = "notify" /\ socket = "released")
  /\ Away(t, "oops")
  /\ UNCHANGED <<modVars, resVars, stuck, failed, late>>

\* The hook calls origin_X, which may itself be a hook.
Forward(t) ==
  LET target == saved[call[t]] IN
  /\ tpc[t] = "forward" /\ Mapped(t)
  /\ IF target = 0
     THEN TaskGoto(t, "origin") /\ UNCHANGED code
     ELSE TaskGoto(t, "check") /\ code' = [code EXCEPT ![t] = target]
  /\ UNCHANGED <<modVars, resVars, call, freed, met, stuck, past>>

\* The real call returns, for how long ever it slept: into the hook, or past it
\* when the compiler made the last call of the hook a jump.
OriginReturns(t) ==
  /\ tpc[t] = "origin"
  /\ \/ TaskGoto(t, "after") /\ UNCHANGED <<call, code, freed, met, torn>>
     \/ call[t] \in TailCalls /\ Away(t, "idle")
  /\ UNCHANGED <<modVars, resVars, stuck, failed, late>>

HookReturns(t) ==
  /\ tpc[t] = "after" /\ Mapped(t)
  /\ Away(t, "idle")
  /\ UNCHANGED <<modVars, resVars, stuck, failed, late>>

\* A write to a /proc file enters its handler ...
EnterWrite(t, g) ==
  /\ tpc[t] = "idle"
  /\ g \in procs
  /\ code' = [code EXCEPT ![t] = g]
  /\ TaskGoto(t, "write")
  /\ torn' = [torn EXCEPT ![t] = Leaving]
  /\ UNCHANGED <<modVars, resVars, call, freed, met, stuck, failed, late>>

\* ... gets into the list, where another one may be at work ...
EnterList(t, place) ==
  LET others == AtWork(code[t]) IN
  /\ TaskGoto(t, place)
  /\ met' = [u \in Tasks |-> met[u] \/ (others # {} /\ u \in others \cup {t})]
  /\ tangled' = (tangled \/ others # {})

\* ... with the text copied to raw_data_buff, ...
CopyRules(t) ==
  /\ tpc[t] = "write" /\ Mapped(t)
  /\ buffers = "all"
  /\ EnterList(t, "build")
  /\ UNCHANGED <<modVars, buffers, procs, socket, rules, call, code, freed, stuck, past>>

\* ... or with an empty one, ...
ClearRules(t) ==
  /\ tpc[t] = "write" /\ Mapped(t)
  /\ EnterList(t, "clear")
  /\ UNCHANGED <<modVars, buffers, procs, socket, rules, call, code, freed, stuck, past>>

\* ... or not at all: memory that cannot be read, a word that is no command.
PassBy(t) ==
  /\ tpc[t] = "write" /\ Mapped(t)
  /\ buffers = "all"
  /\ Away(t, "idle")
  /\ UNCHANGED <<modVars, resVars, stuck, failed, late>>

\* The list is taken down, also under those who walk it, and made anew from as
\* much of the text as is read.  A handler that met nobody leaves it whole.
Rebuilt(t) ==
  /\ rules' \in IF tpc[t] = "build" THEN BOOLEAN ELSE {FALSE}
  /\ tangled' = met[t]
  /\ TakenDown
  /\ late' = (late \/ Leaving)
  /\ UNCHANGED <<modVars, buffers, procs, socket, failed>>

BuildRules(t) ==
  /\ tpc[t] \in InList /\ Mapped(t)
  /\ Rebuilt(t)
  /\ Out(t, "idle")
  /\ UNCHANGED stuck

\* create_list dies: no memory for its copy of the text or for a node, a text
\* larger than the copy, a line without '@'.
BuildDies(t) ==
  /\ tpc[t] = "build" /\ Mapped(t)
  /\ Rebuilt(t)
  /\ Out(t, "starved") \/ Out(t, "misused")
  /\ stuck' = TRUE

\* A text as large as raw_data_buff ends past it.
WriteOverruns(t) ==
  /\ tpc[t] = "write" /\ Mapped(t)
  /\ buffers = "all"
  /\ Away(t, "misused")
  /\ stuck' = TRUE
  /\ UNCHANGED <<modVars, resVars, failed, late>>

\* A handler follows what two have made of the list.
ListFaults(t) ==
  /\ tpc[t] \in InList /\ Mapped(t) /\ tangled
  /\ rules' \in BOOLEAN
  /\ TakenDown
  /\ late' = (late \/ Leaving)
  /\ Out(t, "oops")
  /\ stuck' = TRUE
  /\ UNCHANGED <<modVars, buffers, procs, socket, tangled, failed>>

\* raw_data_buff is NULL, or freed before the copy or before it was read.
WriteFaults(t) ==
  /\ tpc[t] \in {"write", "build"} /\ Mapped(t)
  /\ buffers # "all"
  /\ Away(t, "oops")
  /\ stuck' = TRUE
  /\ UNCHANGED <<modVars, resVars, failed, late>>

TextGone(t) ==
  /\ tpc[t] \in InText /\ ~Mapped(t)
  /\ Away(t, "oops")
  /\ stuck' = (stuck \/ tpc[t] \in Handler)
  /\ UNCHANGED <<modVars, resVars, failed, late>>

\* A dead task is buried and another takes its place.
Bury(t) ==
  /\ tpc[t] \in Dead
  /\ TaskGoto(t, "idle")
  /\ UNCHANGED <<modVars, resVars, call, code, freed, met, stuck, past>>

TaskStep(t) ==
  \/ BadArgument(t) \/ Starves(t)
  \/ CheckRules(t) \/ WalkRules(t) \/ NotifyRefusal(t) \/ WalkFaults(t)
  \/ Forward(t) \/ HookReturns(t)
  \/ CopyRules(t) \/ ClearRules(t) \/ PassBy(t) \/ WriteOverruns(t)
  \/ BuildRules(t) \/ BuildDies(t) \/ ListFaults(t) \/ WriteFaults(t) \/ TextGone(t)

TaskCall(t) ==
  \/ \E s \in Syscalls : Enter(t, s)
  \/ \E g \in Text : EnterWrite(t, g)

LoadStep ==
  \/ NoTable \/ SaveOrigins \/ Hook \/ AllocBuffers \/ NoBuffers
  \/ MakeProcs \/ NoProcs \/ OpenSocket \/ NoSocket
UnloadStep ==
  \/ Unhook \/ DestroyList \/ DestroyFaults \/ FreeBuffers \/ RemoveProcs \/ DrainProcs
  \/ ReleaseSocket \/ UnmapText

ModuleInit ==
  /\ table = [s \in Syscalls |-> 0] /\ saved = [s \in Syscalls |-> 0]
  /\ text = 0 /\ loads = 0 /\ phase = "out" /\ at = 0
  /\ buffers = "none" /\ procs = {} /\ socket = "null"
  /\ rules = FALSE /\ tangled = FALSE
  /\ tpc = [t \in Tasks |-> "idle"] /\ code = [t \in Tasks |-> 0]
  /\ call = [t \in Tasks |-> Order[1]]
  /\ freed = [t \in Tasks |-> FALSE] /\ torn = [t \in Tasks |-> FALSE]
  /\ met = [t \in Tasks |-> FALSE]
  /\ failed = FALSE /\ late = FALSE /\ stuck = FALSE

ModuleNext ==
  \/ LoadText \/ LoadStep \/ StartUnload \/ UnloadStep
  \/ \E t \in Tasks : TaskCall(t) \/ TaskStep(t) \/ OriginReturns(t) \/ Bury(t)

ModuleSpec == ModuleInit /\ [][ModuleNext]_moduleVars

\* insmod, rmmod and the tasks inside the module are run; what a real system
\* call waits for may never come.
ModuleFairSpec ==
  /\ ModuleSpec
  /\ WF_moduleVars(LoadStep) /\ WF_moduleVars(UnloadStep)
  /\ \A t \in Tasks : WF_moduleVars(TaskStep(t))

-----------------------------------------------------------------------------
(* Properties.                                                             *)

Phases == {"out", "save", "hook", "buffers", "procs", "socket", "in", "unhook",
           "destroy", "vfree", "remove", "drain", "release", "unmap", "killed"}
Places == {"idle", "check", "walk", "notify", "forward", "origin", "after", "write",
           "build", "clear"} \cup Dead

\* Every variable has its type.
ModuleTypeOK ==
  /\ table \in [Syscalls -> Text] /\ saved \in [Syscalls -> Text]
  /\ text \in Text /\ loads \in Text
  /\ phase \in Phases
  /\ at \in 0 .. Len(Order) /\ (phase \in {"hook", "unhook"} => at # 0)
  /\ buffers \in {"none", "all", "partial"}
  /\ procs \subseteq Text
  /\ socket \in {"null", "open", "released"}
  /\ rules \in BOOLEAN /\ tangled \in BOOLEAN
  /\ tpc \in [Tasks -> Places]
  /\ call \in [Tasks -> Syscalls] /\ code \in [Tasks -> Text]
  /\ freed \in [Tasks -> BOOLEAN] /\ torn \in [Tasks -> BOOLEAN]
  /\ met \in [Tasks -> BOOLEAN]
  /\ stuck \in BOOLEAN /\ failed \in BOOLEAN /\ late \in BOOLEAN

\* Unless a load has failed half-way, the table never leads to text that is not
\* mapped, and the hooks forward to the kernel's own calls.
HooksMapped ==
  ~failed =>
    /\ \A s \in Syscalls : table[s] \in {0, text}
    /\ phase \notin {"out", "save"} => \A s \in Syscalls : saved[s] = 0

\* Unless a load has failed half-way, the module that is out has left the table
\* as it was, no /proc file, no buffer, no open socket, and no list but one that
\* was written while it was going.
LeavesNothing ==
  phase = "out" /\ ~failed =>
    /\ \A s \in Syscalls : table[s] = 0
    /\ procs = {} /\ buffers = "none" /\ socket # "open"
    /\ rules => late

\* A task that gets the memory it asks for, and whose arguments and text can be
\* trusted, is killed only if a load has failed half-way, the module was going while
\* the task was in its text, the list was freed under its walk, raw_data_buff was
\* never allocated, or two have been at work in the list at once and nobody has put
\* it right since.  (What is written past the end of a buffer is not followed.)
FaultExplained ==
  [][\A t \in Tasks :
       tpc[t] # "oops" /\ tpc'[t] = "oops" =>
         failed \/ torn[t] \/ freed[t] \/ tangled \/ buffers = "partial"]_moduleVars

\* rmmod ends, unless a write handler died, for which remove_proc_entry waits, or it
\* is killed itself by a list that others are at work in.
UnloadEnds == Leaving ~> phase \in {"out", "killed"} \/ stuck
=============================================================================
