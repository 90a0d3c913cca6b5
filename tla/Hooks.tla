--------------------------------- MODULE Hooks ---------------------------------
(***************************************************************************)
(* The hooks of LKM/fsprotection.c that judge a call by the name it was    *)
(* given (mkdir, chdir, unlink, unlinkat, rename), those that only pass it *)
(* on (open, renameat) and rmdir, which acts before it looks.  The caller  *)
(* is a process of several threads: they share the current directory and   *)
(* the memory the names are in, and each takes its calls one step at a     *)
(* time.  The kernel's own calls are a small tree of files.  The walk of   *)
(* the rules is one step here (AccessPolicy; ProtectList shows its steps). *)
(***************************************************************************)
EXTENDS PathNames

CONSTANTS
  Threads,
  Calls,          \* the kinds of call they make
  MemoryFails,    \* kmalloc may find no memory
  Object, Dirs,   \* what the tree may hold; which of it are directories
  Root,
  Token,          \* the components names are made of, and the slash
  FirstTree,      \* where each is at first, NULL when it is not
  Names,          \* the names a caller may give
  NewNames,       \* ... and for the new name of rename
  DirFds,         \* the directories unlinkat may be given, NULL for none
  RuleSets,       \* the rules that may be in force
  Leftovers,      \* what kmalloc'ed memory may hold up to its first NUL
  NULL

\* What d_path writes behind a directory that was removed.
Deleted == "(deleted)"

\* What the hook of a call looks for.  The others look for nothing.
TypeOf == [mkdir |-> "mkdir", chdir |-> "hide", unlink |-> "del",
           unlinkat |-> "del", rename |-> "rename"]
Kinds == DOMAIN TypeOf \cup {"rmdir", "open", "renameat"}

ASSUME HooksAssumption ==
  /\ Calls \subseteq Kinds /\ MemoryFails \in BOOLEAN
  /\ Root \in Dirs /\ Dirs \subseteq Object
  /\ FirstTree \in [Object -> Seq(Token) \cup {NULL}] /\ FirstTree[Root] = <<>>
  /\ {Slash, Here, Up, Deleted} \subseteq Token
  /\ Names \subseteq Seq(Token) /\ NewNames \subseteq Seq(Token) \cup {NULL}
  /\ NULL \notin Seq(Token)
  /\ DirFds \subseteq Dirs \cup {NULL}
  /\ RuleSets \subseteq SUBSET [path : Seq(Token), type : STRING]
  /\ <<>> \in Leftovers

VARIABLES
  where, cwd,      \* the tree; the current directory of the process
  rules,
  memory,          \* per thread: the names it passes, NULL where nothing is mapped
  pc, call, arg,   \* its place in the hook, its call, the name it is at
  kernelpath, fullpath, \* the hook's buffers, NULL when not allocated
  \* history, read by no guard
  seen,            \* the types and objects under a rule when the call was checked
  from,            \* the directory the full path of the (first) name was built from
  disturbed        \* what may have come between the check and the call

tree    == <<where, cwd>>
buffers == <<kernelpath, fullpath>>
history == <<seen, from, disturbed>>
vars    == <<tree, rules, memory, pc, call, arg, buffers, history>>

NoCall == [kind |-> "open", dirfd |-> NULL, removedir |-> FALSE]

-----------------------------------------------------------------------------
(* The kernel's own calls.                                                 *)

At(place) == {o \in Object : where[o] = place}
IsDirectory(place) == place # NULL /\ At(place) \cap Dirs # {}
IsEmpty(place) == \A o \in Object : where[o] # NULL => ~IsStrictPrefix(place, where[o])

\* The place a name leads to from a directory, NULL when a component is missing.
Walk(dir, start, name) ==
  LET step(at, token) ==
        IF ~IsDirectory(at) THEN NULL
        ELSE LET to == Denotes(at, <<Here, token>>) IN IF At(to) = {} THEN NULL ELSE to
  IN FoldLeft(step, IF Relative(start) THEN where[dir] ELSE <<>>, name)

\* The place whose entry a call is to make, move or remove: its directory is
\* there, the entry need not be.  As a set, empty when there is none.
Target(dir, name) ==
  LET parts == {i \in DOMAIN name : name[i] # Slash}
      n == CHOOSE i \in parts : \A j \in parts : j <= i
      at == Walk(dir, name, SubSeq(name, 1, n - 1))
  IN IF parts = {} \/ name[n] \in {Here, Up} \/ ~IsDirectory(at) THEN {}
     ELSE {Append(at, name[n])}

Removable(o, name, asDir) ==
  IF o \in Dirs THEN asDir /\ o # Root /\ IsEmpty(where[o]) ELSE ~asDir /\ Last(name) # Slash

Removes(dir, name, asDir) ==
  \E place \in Target(dir, name) : \E o \in At(place) :
    /\ Removable(o, name, asDir)
    /\ where' = [where EXCEPT ![o] = NULL]
    /\ UNCHANGED cwd

MakesDir(name) ==
  \E place \in Target(cwd, name), o \in Dirs :
    /\ At(place) = {} /\ where[o] = NULL /\ o # cwd
    /\ where' = [where EXCEPT ![o] = place]
    /\ UNCHANGED cwd

\* What was at the new place is gone, what was below the old one comes along.
Renames(old, new) ==
  \E p \in Target(cwd, old), q \in Target(cwd, new) : \E o \in At(p) :
    /\ ~IsPrefix(p, q)
    /\ o \notin Dirs => Last(old) # Slash /\ Last(new) # Slash
    /\ \A gone \in At(q) : (gone \in Dirs <=> o \in Dirs) /\ IsEmpty(q)
    /\ where' = [x \in Object |->
                   IF where[x] = NULL \/ x \in At(q) THEN NULL
                   ELSE IF IsPrefix(p, where[x])
                   THEN q \o SubSeq(where[x], Len(p) + 1, Len(where[x]))
                   ELSE where[x]]
    /\ UNCHANGED cwd

ChangesDir(name) ==
  /\ name # <<>>
  /\ \E o \in Dirs : where[o] # NULL /\ where[o] = Walk(cwd, name, name) /\ cwd' = o
  /\ UNCHANGED where

-----------------------------------------------------------------------------
(* A call.                                                                 *)

Goto(t, place) == pc' = [pc EXCEPT ![t] = place]

Begin(t, kind, name, newName, dirfd, removedir) ==
  /\ pc[t] = "idle"
  /\ call' = [call EXCEPT ![t] = [kind |-> kind, dirfd |-> dirfd, removedir |-> removedir]]
  /\ memory' = [memory EXCEPT ![t] = <<name, newName>>]
  /\ Goto(t, IF kind \in DOMAIN TypeOf THEN "copy" ELSE "origin")
  /\ UNCHANGED <<tree, rules, arg, buffers, history>>

\* What is copied byte by byte while another thread writes b over a.
Torn(a, b) ==
  IF a = NULL \/ b = NULL THEN {a, b}
  ELSE {a} \cup {SubSeq(a, 1, k) \o SubSeq(b, k + 1, Len(b)) :
                   k \in 0 .. (IF Len(a) < Len(b) THEN Len(a) ELSE Len(b))}

\* copy_from_user puts a zero for what it cannot read, which ends the string.
Read(name) == IF name = NULL THEN <<>> ELSE name

Disturb(t, what) == disturbed' = [disturbed EXCEPT ![t] = @ \cup {what}]

\* copyStringFromUser.
CopyName(t) ==
  LET i == arg[t]
      other == IF Threads = {t} THEN {memory[t][i]} ELSE Names \cup {memory[t][i]}
  IN
  /\ pc[t] = "copy"
  /\ \E now \in other : \E text \in Torn(memory[t][i], now) :
       /\ memory' = [memory EXCEPT ![t][i] = now]
       /\ kernelpath' = [kernelpath EXCEPT ![t][i] = Read(text)]
  /\ Goto(t, IF call[t].kind = "rmdir" THEN "free"
             ELSE IF call[t].kind = "chdir" THEN "check" ELSE "full")
  /\ UNCHANGED <<tree, rules, call, arg, fullpath, history>>

\* ... and when there is no memory; no hook looks at the result.
CopyFails(t) ==
  /\ MemoryFails
  /\ pc[t] = "copy"
  /\ Disturb(t, "memory")
  /\ Goto(t, IF call[t].kind = "rmdir" THEN "free"
             ELSE IF call[t].kind = "chdir" THEN "check" ELSE "full")
  /\ UNCHANGED <<tree, rules, memory, call, arg, buffers, seen, from>>

\* The name after this one, or the check.
NextName(t) ==
  IF call[t].kind = "rename" /\ arg[t] = 1
  THEN arg' = [arg EXCEPT ![t] = 2] /\ Goto(t, "copy")
  ELSE UNCHANGED arg /\ Goto(t, "check")

\* A directory that was removed is written as no other is.
TextOf(dir) == IF where[dir] = NULL THEN <<Slash, Deleted>> ELSE Text(where[dir])

\* getNewFullPath: the buffer is not cleared before the text is appended.
FullName(t) ==
  /\ pc[t] = "full"
  /\ kernelpath[t][arg[t]] # NULL
  /\ \E left \in Leftovers :
       /\ fullpath' = [fullpath EXCEPT ![t][arg[t]] =
                         FullPath(left, TextOf(cwd), kernelpath[t][arg[t]])]
       /\ IF left = <<>> THEN UNCHANGED disturbed ELSE Disturb(t, "leftover")
  /\ from' = IF arg[t] = 1 THEN [from EXCEPT ![t] = where[cwd]] ELSE from
  /\ NextName(t)
  /\ UNCHANGED <<tree, rules, memory, call, kernelpath, seen>>

\* ... and when there is no memory for the text, or none for d_path.
FullFails(t) ==
  /\ MemoryFails
  /\ pc[t] = "full"
  /\ \E text \in {NULL} \cup Leftovers : fullpath' = [fullpath EXCEPT ![t][arg[t]] = text]
  /\ Disturb(t, "memory")
  /\ NextName(t)
  /\ UNCHANGED <<tree, rules, memory, call, kernelpath, seen, from>>

\* strcat of the name that was not copied.
FullFaults(t) ==
  /\ pc[t] = "full"
  /\ kernelpath[t][arg[t]] = NULL
  /\ Goto(t, "dead")
  /\ UNCHANGED <<tree, rules, memory, call, arg, buffers, history>>

\* The text the hook holds against the rules.
Judged(t) ==
  IF call[t].kind = "chdir" THEN kernelpath[t][1]
  ELSE IF call[t].kind = "mkdir" /\ fullpath[t][1] # NULL THEN ParentDir(fullpath[t][1])
  ELSE fullpath[t][1]

\* Slip: a rule applies to all that lies below its path, too.
IsPathBelow(path, type) == \E rule \in rules : IsPrefix(rule.path, path) /\ rule.type = type

\* is_path_protected.
IsPathProtected(path, type) == \E rule \in rules : rule.path = path /\ rule.type = type

\* What the rules mean: the very thing at that place.
Forbidden(place, type) == [path |-> Text(place), type |-> type] \in rules

\* No path: strlen reads it in any case, strcmp when there is a rule.
CheckFaults(t) ==
  /\ pc[t] = "check"
  /\ Judged(t) = NULL /\ (call[t].kind = "mkdir" \/ rules # {})
  /\ Goto(t, "dead")
  /\ UNCHANGED <<tree, rules, memory, call, arg, buffers, history>>

Check(t) ==
  /\ pc[t] = "check"
  /\ Judged(t) # NULL \/ (call[t].kind # "mkdir" /\ rules = {})
  /\ seen' = [seen EXCEPT ![t] = {o \in Object :
                                        where[o] # NULL /\ Forbidden(where[o], TypeOf[call[t].kind])}]
  /\ Goto(t, IF IsPathProtected(Judged(t), TypeOf[call[t].kind]) THEN "free" ELSE "origin")
  /\ UNCHANGED <<tree, rules, memory, call, arg, buffers, from, disturbed>>

\* origin_X reads the caller's memory anew.
RealCall(t) ==
  LET kind == call[t].kind
      name == Read(memory[t][1])
      dir == IF call[t].dirfd = NULL THEN cwd ELSE call[t].dirfd
  IN
  \/ kind \in {"unlink", "unlinkat", "rmdir"}
       /\ Removes(dir, name, kind = "rmdir" \/ call[t].removedir)
  \/ kind = "mkdir" /\ MakesDir(name)
  \/ kind \in {"rename", "renameat"} /\ Renames(name, Read(memory[t][2]))
  \/ kind = "chdir" /\ ChangesDir(name)
  \/ UNCHANGED tree

Origin(t) ==
  /\ pc[t] = "origin"
  /\ RealCall(t)
  /\ disturbed' = [u \in Threads |->
                     IF u # t /\ pc[u] \notin {"idle", "dead"} /\ tree' # tree
                     THEN disturbed[u] \cup {"tree"}
                     ELSE disturbed[u]]
  /\ Goto(t, IF call[t].kind = "rmdir" THEN "copy" ELSE "free")
  /\ UNCHANGED <<rules, memory, call, arg, buffers, seen, from>>

\* Slip: the buffers of the second name are forgotten.
FreeFirst(t, b) == [b EXCEPT ![t][1] = NULL]
Freed(t, b) == [b EXCEPT ![t] = <<NULL, NULL>>]

\* kfree of what there is, and the result.
Finish(t) ==
  /\ pc[t] = "free"
  /\ kernelpath' = Freed(t, kernelpath) /\ fullpath' = Freed(t, fullpath)
  /\ memory' = [memory EXCEPT ![t] = <<NULL, NULL>>]
  /\ call' = [call EXCEPT ![t] = NoCall]
  /\ arg' = [arg EXCEPT ![t] = 1]
  /\ Goto(t, "idle")
  /\ seen' = [seen EXCEPT ![t] = {}]
  /\ from' = [from EXCEPT ![t] = NULL]
  /\ disturbed' = [disturbed EXCEPT ![t] = {}]
  /\ UNCHANGED <<tree, rules>>

\* Another thread of the process writes another name where this one was; once
\* the real call has read it nobody does again (and CopyName shows the other
\* moment).
Rewrite(t, i, name) ==
  /\ pc[t] \in {"full", "check", "origin"} /\ Threads # {t}
  /\ i = 2 => call[t].kind \in {"rename", "renameat"}
  /\ memory' = [memory EXCEPT ![t][i] = name]
  /\ UNCHANGED <<tree, rules, pc, call, arg, buffers, history>>

\* A manager replaces the list.
SetRules ==
  /\ rules' \in RuleSets
  /\ UNCHANGED <<tree, memory, pc, call, arg, buffers, history>>

Init ==
  /\ where = FirstTree /\ cwd \in {d \in Dirs : FirstTree[d] # NULL}
  /\ rules \in RuleSets
  /\ memory = [t \in Threads |-> <<NULL, NULL>>]
  /\ pc = [t \in Threads |-> "idle"] /\ call = [t \in Threads |-> NoCall]
  /\ arg = [t \in Threads |-> 1]
  /\ kernelpath = [t \in Threads |-> <<NULL, NULL>>]
  /\ fullpath = [t \in Threads |-> <<NULL, NULL>>]
  /\ seen = [t \in Threads |-> {}] /\ from = [t \in Threads |-> NULL]
  /\ disturbed = [t \in Threads |-> {}]

CallBegins(t) ==
  \E kind \in Calls, name \in Names \cup {NULL} :
    IF kind = "unlinkat"
    THEN \E dirfd \in DirFds, removedir \in BOOLEAN :
           Begin(t, kind, name, NULL, dirfd, removedir)
    ELSE IF kind \in {"rename", "renameat"}
    THEN \E newName \in NewNames : Begin(t, kind, name, newName, NULL, FALSE)
    ELSE Begin(t, kind, name, NULL, NULL, FALSE)

HookStep(t) ==
  \/ CopyName(t) \/ CopyFails(t) \/ FullName(t) \/ FullFails(t) \/ FullFaults(t)
  \/ CheckFaults(t) \/ Check(t) \/ Origin(t) \/ Finish(t)

Next ==
  \/ SetRules
  \/ \E t \in Threads :
       \/ CallBegins(t) \/ HookStep(t)
       \/ \E i \in 1 .. 2, name \in Names : Rewrite(t, i, name)

Spec == Init /\ [][Next]_vars

-----------------------------------------------------------------------------
(* Properties.                                                             *)

\* Every variable has a value of its kind.
TypeOK ==
  /\ DOMAIN where = Object /\ cwd \in Dirs
  /\ rules \in RuleSets
  /\ \A t \in Threads : \A i \in 1 .. 2 :
       memory[t][i] \in Names \cup NewNames \cup {NULL}
  /\ pc \in [Threads -> {"idle", "copy", "full", "check", "origin", "free", "dead"}]
  /\ call \in [Threads -> [kind : Kinds, dirfd : Dirs \cup {NULL}, removedir : BOOLEAN]]
  /\ arg \in [Threads -> 1 .. 2]
  /\ seen \in [Threads -> SUBSET Object]
  /\ disturbed \in [Threads -> SUBSET {"memory", "leftover", "tree"}]

\* The name is spelled so that its full path is the one the rules know: for
\* mkdir one slash at the end does no harm, chdir wants the path itself.
Straight(kind, name) ==
  CASE kind = "chdir" -> name = <<Slash>> \/ (name # <<>> /\ ~Relative(name) /\ Plain(Tail(name)))
    [] kind = "mkdir" -> Plain(name) \/ (name # <<>> /\ Last(name) = Slash /\ Plain(Front(name)))
    [] OTHER -> Plain(name)

\* What a call of thread t did to objects, of the kind a rule can forbid.
Affected(t) ==
  CASE call[t].kind \in {"unlink", "unlinkat"} ->
         {o \in Object : where[o] # NULL /\ where'[o] = NULL}
    [] call[t].kind = "rename" ->
         {o \in Object : /\ where[o] # NULL /\ where'[o] \notin {NULL, where[o]}
                         /\ \A p \in Object :
                              where[p] # NULL /\ IsStrictPrefix(where[p], where[o])
                                => where'[p] = where[p]}
    [] call[t].kind = "mkdir" ->
         {d \in Dirs : \E o \in Dirs : /\ where[o] = NULL /\ where'[o] # NULL
                                       /\ where[d] = Front(where'[o])}
    [] call[t].kind = "chdir" -> {d \in Dirs : cwd' = d /\ cwd # d}

\* Why a call may get by a rule.
Excused(t) ==
  \/ disturbed[t] # {}                                 \* no memory, leftovers, the tree moved
  \/ ~Straight(call[t].kind, kernelpath[t][1])
  \/ Read(memory[t][1]) # kernelpath[t][1]             \* the name was changed after the check
  \/ call[t].dirfd \notin {NULL, cwd}                  \* unlinkat looks elsewhere
  \/ from[t] = <<>> /\ ~(call[t].kind = "mkdir" /\ Len(kernelpath[t][1]) <= 2)  \* "//name"

\* A call judged by its name (LKM/fsprotection.c:92-142, 271-356) never removes,
\* renames, enters or makes a directory in what a rule of its kind named by path
\* when it was checked, unless the name was spelled roundabout, given from the
\* root directory or from another directory than the current one, changed in
\* memory between the two copies, or disturbed by a failed kmalloc, leftovers
\* in the buffer or a change of the tree.
RuledObjectsKept ==
  [][\A t \in Threads :
       pc[t] = "origin" /\ pc'[t] # "origin" /\ call[t].kind \in DOMAIN TypeOf =>
         Affected(t) \cap seen[t] = {} \/ Excused(t)]_vars

\* What the caller asked for: mkdir's directory, else what the name denotes.
Asked(t) ==
  LET place == Denotes(from[t], kernelpath[t][1])
  IN IF call[t].kind = "mkdir" THEN Front(place) ELSE place

\* A path as d_path writes it: one slash in front of every component.
AsWritten(path) ==
  \/ path = <<Slash>>
  \/ /\ path # <<>> /\ Len(path) % 2 = 0
     /\ \A i \in DOMAIN path : /\ path[i] = Slash <=> i % 2 = 1
                               /\ path[i] \notin {Here, Up, Deleted}

\* The rules as a user should give them, but that a relative name does no harm.
RulesAsWritten ==
  \A set \in RuleSets : \A rule \in set : AsWritten(rule.path) \/ Relative(rule.path)

\* A hook refuses only what a rule forbids: when neither leftovers nor a failed
\* kmalloc made up the text, a call is refused only for a rule on the very thing
\* the name denotes from the directory the call was made in; mkdir's parent
\* directory is the one exception, when the name is spelled roundabout, and
\* chdir's, when the rule was given by a relative name.
RefusedRightly ==
  [][\A t \in Threads :
       pc[t] = "check" /\ pc'[t] \notin {"check", "origin", "dead"} =>
         \/ disturbed[t] \cap {"leftover", "memory"} # {}
         \/ call[t].kind = "mkdir" /\ ~Straight("mkdir", kernelpath[t][1])
         \/ call[t].kind = "chdir" /\ Relative(kernelpath[t][1])
         \/ Forbidden(Asked(t), TypeOf[call[t].kind])]_vars

\* A hook that returned has freed every buffer it allocated, whichever copy
\* failed and whatever the verdict; only a thread that died keeps any.  It never
\* has more names than a call takes.
NothingHeld ==
  /\ TypeOK
  /\ \A t \in Threads :
       pc[t] = "idle" => \A i \in 1 .. 2 : kernelpath[t][i] = NULL /\ fullpath[t][i] = NULL
=============================================================================
