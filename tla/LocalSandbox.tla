---------------------------- MODULE LocalSandbox ----------------------------
(***************************************************************************)
(* The sandboxes of LocalSandboxProvider (provider/sandbox.go): one per    *)
(* thread, kept in an LRU cache, with the mounts that turn the container   *)
(* paths of the agent into local ones and back, and the tools that use     *)
(* them.  A tool acquires the sandbox of its thread and gets it by its id  *)
(* in two critical sections, and works on it in neither of them.           *)
(*                                                                         *)
(* A path is a sequence of segments; the tools refuse those with a "..",   *)
(* so that cleaning does nothing but drop a slash at the end, which is     *)
(* left out: it leads to the same file.  The content of a file is the set  *)
(* of the names of files in it, whatever else it says.  The sandbox of     *)
(* calls without a thread and symbolic links are left out.                 *)
(***************************************************************************)
EXTENDS Naturals, Sequences, FiniteSets, SequencesExt, Selection

CONSTANTS
  Threads, Calls, None,
  Mounts,       \* of every thread: [container, local, readOnly]
  Paths,        \* of files, as the tools are told them
  OtherPaths,   \* bound: of the files that others write
  Contents,     \* the sets of names that the agent writes
  MaxCache,
  MaxObjects    \* bound: sandboxes made

VARIABLES
  \* the provider, under p.mu
  cached,    \* the cached sandbox of a thread
  lru,        \* longest unused first
  made,       \* sandboxes made so far
  marks,      \* agentWritten of each
  disk,       \* the files that exist
  \* the calls of tools
  doing, owner, sb,
  job,          \* the write that a call is at: [path, text, append]
  \* history
  author,       \* of a file: the sandbox whose tools alone made the content, or None
  meant,        \* its content as the agent wrote it
  since       \* threads used since a call has acquired; all after a Reset

cacheVars == <<cached, lru>>
fileVars  == <<disk, author, meant, marks>>
vars == <<cacheVars, made, fileVars, doing, owner, sb, job, since>>

(* A sandbox, by its thread and its number.                                  *)
Objects == Threads \X (1..MaxObjects)

-----------------------------------------------------------------------------
(* Paths.                                                                    *)

Longest(S) == CHOOSE p \in S : \A q \in S : Len(q) <= Len(p)
Rest(p, q) == SubSeq(q, Len(p) + 1, Len(q))
Local(t, m) == <<t>> \o m.local

(* findPathMapping: the longest container path that is a prefix, if any is.  *)
Mapped(p)  == {m \in Mounts : IsPrefix(m.container, p)}
MountOf(p) == CHOOSE m \in Mapped(p) : m.container = Longest({n.container : n \in Mapped(p)})

(* A path under no mount is taken for a local one.                           *)
Resolve(t, p) == IF Mapped(p) = {} THEN p ELSE Local(t, MountOf(p)) \o Rest(MountOf(p).container, p)

(* The mounts whose local directory holds the file, and the innermost one.   *)
HeldBy(t, f)   == {m \in Mounts : IsPrefix(Local(t, m), f)}
HolderOf(t, f) == CHOOSE m \in HeldBy(t, f) : Local(t, m) = Longest({Local(t, n) : n \in HeldBy(t, f)})

(* Faulty: the length of the wrong prefix is cut off. *)
ShownCutWrong(t, f) ==
  IF HeldBy(t, f) = {} THEN f ELSE HolderOf(t, f).container \o Rest(HolderOf(t, f).container, f)

(* reverseResolvePath: the name of a file in the container.                  *)
Shown(t, f) ==
  IF HeldBy(t, f) = {} THEN f ELSE HolderOf(t, f).container \o Rest(Local(t, HolderOf(t, f)), f)

(* What becomes of a text on its way to a file of the thread, and back: each *)
(* mount in turn replaces the names under it.  Those it has replaced are     *)
(* names of the other side, which no mount replaces again (NamesApart).      *)
ToHost(t, k)  == {Resolve(t, x) : x \in k}
ToNames(t, k) == {Shown(t, x) : x \in k}

(* Faulty: only the mount the path was given through counts. *)
ReadOnlyByName(t, p) == Mapped(p) # {} /\ MountOf(p).readOnly

ReadOnly(t, p) ==
  \/ Mapped(p) # {} /\ MountOf(p).readOnly
  \/ HeldBy(t, Resolve(t, p)) # {} /\ HolderOf(t, Resolve(t, p)).readOnly

FileOf == [t \in Threads |-> [p \in Paths |-> Resolve(t, p)]]
Locked == [t \in Threads |-> [p \in Paths |-> ReadOnly(t, p)]]
Files  == {FileOf[t][p] : t \in Threads, p \in Paths}

ConstantsAssumption ==
  /\ MaxCache \in Nat \ {0} /\ MaxObjects \in Nat \ {0} /\ None \notin Objects
  /\ OtherPaths \subseteq Paths
  /\ \A p \in Paths \union UNION Contents : p \in Seq(ToSet(p))
  /\ \A m \in Mounts : m.container \in Seq(ToSet(m.container)) /\ m.local \in Seq(ToSet(m.local))

(* A mount below another one, as a container path, is the directory that has *)
(* the same name below the local one.                                        *)
NestedAlike ==
  \A m, n \in Mounts : IsPrefix(m.container, n.container) => n.local = m.local \o Rest(m.container, n.container)

(* The names in the container and on the host are apart: the work directory  *)
(* is not below a container path.                                            *)
NamesApart == \A m \in Mounts : m.container # <<>> /\ m.container[1] \notin Threads

-----------------------------------------------------------------------------

(* The names there are in files, all of them resolved.                       *)
Words == {Resolve(t, x) : t \in Threads, x \in UNION Contents}

Jobs == [path : Paths, text : Contents, append : BOOLEAN]

TypeOK ==
  /\ cached \in [Threads -> Objects \union {None}] /\ lru \in Seq(Threads)
  /\ made \in 0..MaxObjects
  /\ marks \in [Objects -> SUBSET Files]
  /\ DOMAIN disk \subseteq Files /\ \A f \in DOMAIN disk : disk[f] \subseteq Words
  /\ author \in [Files -> Objects \union {None}]
  /\ meant \in [Files -> SUBSET UNION Contents]
  /\ doing \in [Calls -> {"idle", "get", "use", "lost", "open", "mark"}]
  /\ owner \in [Calls -> Threads \union {None}] /\ sb \in [Calls -> Objects \union {None}]
  /\ job \in [Calls -> Jobs \union {None}]
  /\ since \in [Calls -> SUBSET Threads]

Init ==
  /\ cached = [t \in Threads |-> None] /\ lru = <<>> /\ made = 0
  /\ marks = [o \in Objects |-> {}]
  /\ disk = <<>>
  /\ author = [f \in Files |-> None] /\ meant = [f \in Files |-> {}]
  /\ doing = [c \in Calls |-> "idle"] /\ owner = [c \in Calls |-> None]
  /\ sb = [c \in Calls |-> None] /\ job = [c \in Calls |-> None] /\ since = [c \in Calls |-> {}]

Goto(c, at) == doing' = [doing EXCEPT ![c] = at]
Without(t)  == Selection(lru, {i \in DOMAIN lru : lru[i] # t})

(* Thread t is used, by call c.                                              *)
Used(c, t) == [d \in Calls |-> IF d # c /\ doing[d] = "get" THEN since[d] \union ({t} \ {owner[d]}) ELSE since[d]]

-----------------------------------------------------------------------------
(* The provider.                                                             *)

(* Faulty: the newest goes. *)
EvictNewest(s) == IF Len(s) > MaxCache THEN Front(s) ELSE s

(* evictLocked: one sandbox more than the cache holds at most.               *)
Evict(s) == IF Len(s) > MaxCache THEN Tail(s) ELSE s

Touch(t) == Append(Without(t), t)

Acquire(c, t) ==
  /\ doing[c] \in {"idle", "lost"}
  /\ owner' = [owner EXCEPT ![c] = t] /\ Goto(c, "get")
  /\ since' = [Used(c, t) EXCEPT ![c] = {}]
  /\ IF cached[t] # None
     THEN lru' = Touch(t) /\ UNCHANGED <<cached, made>>
     ELSE /\ made < MaxObjects /\ made' = made + 1
          /\ lru' = Evict(Append(lru, t))
          /\ cached' = [u \in Threads |-> IF u \notin ToSet(lru') THEN None
                                           ELSE IF u = t THEN <<t, made'>> ELSE cached[u]]
  /\ UNCHANGED <<fileVars, sb, job>>

Get(c) ==
  /\ doing[c] = "get"
  /\ IF cached[owner[c]] # None
     THEN /\ lru' = Touch(owner[c]) /\ since' = Used(c, owner[c])
          /\ sb' = [sb EXCEPT ![c] = cached[owner[c]]] /\ Goto(c, "use")
     ELSE Goto(c, "lost") /\ UNCHANGED <<lru, sb, since>>
  /\ UNCHANGED <<cached, made, fileVars, owner, job>>

Reset ==
  /\ lru # <<>>
  /\ cached' = [t \in Threads |-> None] /\ lru' = <<>>
  /\ since' = [c \in Calls |-> IF doing[c] = "get" THEN Threads ELSE since[c]]
  /\ UNCHANGED <<made, fileVars, doing, owner, sb, job>>

-----------------------------------------------------------------------------
(* The tools: what they do to the sandbox they have got.                     *)

File(c) == FileOf[owner[c]][job[c].path]

(* Those who have opened the file and are going to write into it.            *)
Writers(f) == {c \in Calls : doing[c] = "open" /\ File(c) = f}

Old(f) == IF f \in DOMAIN disk THEN disk[f] ELSE {}
Store(f, k) == disk' = [g \in DOMAIN disk \union {f} |-> IF g = f THEN k ELSE disk[g]]

Return(c) ==
  /\ Goto(c, "idle") /\ owner' = [owner EXCEPT ![c] = None] /\ since' = [since EXCEPT ![c] = {}]
  /\ sb' = [sb EXCEPT ![c] = None] /\ job' = [job EXCEPT ![c] = None]

(* write_file and WriteFile: nothing happens if it is refused or the file    *)
(* cannot be opened.  Whoever opens a file beside another makes a mixture.   *)
Refuse(c) ==
  /\ doing[c] = "use" /\ Return(c)
  /\ UNCHANGED <<cacheVars, made, fileVars>>

(* The content will be that of the sandbox of c alone.                       *)
Alone(c, f, append) ==
  Writers(f) = {} /\ (append => f \notin DOMAIN disk \/ author[f] = sb[c])

Open(c, p, k, append) ==
  LET f == FileOf[owner[c]][p] IN
  /\ doing[c] = "use" /\ ~Locked[owner[c]][p]
  /\ Store(f, IF append THEN Old(f) ELSE {})
  /\ author' = [author EXCEPT ![f] = IF Alone(c, f, append) THEN sb[c] ELSE None]
  /\ meant' = [meant EXCEPT ![f] = IF append /\ Alone(c, f, append) THEN @ ELSE {}]
  /\ job' = [job EXCEPT ![c] = [path |-> p, text |-> k, append |-> append]]
  /\ Goto(c, "open")
  /\ UNCHANGED <<cacheVars, made, marks, owner, sb, since>>

(* Without O_APPEND it writes over what others have written since it opened. *)
Left(c) == IF job[c].append THEN {Old(File(c))} ELSE SUBSET Old(File(c))

WriteText(c) ==
  /\ doing[c] = "open"
  /\ \E old \in Left(c) : Store(File(c), old \union ToHost(owner[c], job[c].text))
  /\ meant' = [meant EXCEPT ![File(c)] = IF author[File(c)] = None THEN {} ELSE @ \union job[c].text]
  /\ Goto(c, "mark")
  /\ UNCHANGED <<cacheVars, made, author, marks, owner, sb, job, since>>

(* A write that fails on the way leaves its beginning and no mark.           *)
WriteFails(c) ==
  /\ doing[c] = "open"
  /\ \E old \in Left(c), part \in SUBSET job[c].text : Store(File(c), old \union ToHost(owner[c], part))
  /\ author' = [author EXCEPT ![File(c)] = None] /\ meant' = [meant EXCEPT ![File(c)] = {}]
  /\ Return(c)
  /\ UNCHANGED <<cacheVars, made, marks>>

(* Faulty: an append is not a write of the agent. *)
MarkUnlessAppended(o, f, append) == IF append THEN marks ELSE [marks EXCEPT ![o] = @ \union {f}]

Mark(o, f, append) == [marks EXCEPT ![o] = @ \union {f}]

MarkWritten(c) ==
  /\ doing[c] = "mark"
  /\ marks' = Mark(sb[c], File(c), job[c].append)
  /\ Return(c)
  /\ UNCHANGED <<cacheVars, made, disk, author, meant>>

(* read_file and ReadFile.                                                   *)
View(o, f) == IF f \in marks[o] THEN ToNames(o[1], disk[f]) ELSE disk[f]

(* read_file, ls, glob and grep, which change nothing.                       *)
Look(c) ==
  /\ doing[c] = "use" /\ Return(c)
  /\ UNCHANGED <<cacheVars, made, fileVars>>

(* A command of bash writes a file, or anybody else; no mark says so.  The   *)
(* names in a command are resolved as those in a content.                    *)
Bash(f, k) ==
  /\ Store(f, k)
  /\ author' = [author EXCEPT ![f] = None] /\ meant' = [meant EXCEPT ![f] = {}]
  /\ UNCHANGED <<cacheVars, made, marks, doing, owner, sb, job, since>>

Next ==
  \/ \E c \in Calls :
       \/ \E t \in Threads : Acquire(c, t)
       \/ Get(c) \/ Look(c) \/ Refuse(c)
       \/ \E p \in Paths, k \in Contents, append \in BOOLEAN : Open(c, p, k, append)
       \/ WriteText(c) \/ WriteFails(c) \/ MarkWritten(c)
  \/ Reset
  \/ \E t \in Threads, p \in OtherPaths, k \in Contents : Bash(FileOf[t][p], ToHost(t, k))

Spec == Init /\ [][Next]_vars

-----------------------------------------------------------------------------

(* The LRU list has exactly the cached threads, each once, and no more than  *)
(* MaxCache, and a thread is given a sandbox of its own.                     *)
LruIsExact ==
  /\ ToSet(lru) = {t \in Threads : cached[t] # None}
  /\ Len(lru) <= MaxCache /\ Cardinality(ToSet(lru)) = Len(lru)
  /\ \A t \in Threads : cached[t] # None => cached[t][1] = t
  /\ \A c \in Calls : sb[c] # None => sb[c][1] = owner[c]

(* A tool finds no sandbox after it has acquired one only if as many other   *)
(* threads as the cache holds were used in between, or the cache was reset.  *)
LostByPressureOnly ==
  \A c \in Calls : doing[c] = "lost" =>
    Cardinality(since[c]) >= MaxCache \/ since[c] = Threads

(* The cache is exact and forgets no thread without a reason.                *)
CacheKeepsSandboxes == TypeOK /\ LruIsExact /\ LostByPressureOnly

(* The file that a name leads a tool of the thread to.                       *)
Meaning(t, k) == {Resolve(t, x) : x \in k}

(* An agent reads back what it wrote, once it is written, as long as the     *)
(* sandbox that alone wrote the file is the one that reads it: names that    *)
(* lead to the files it meant, and none of the host.  They need not be those *)
(* it wrote, since an inner mount gives a file its name (sandbox.go 226-255, *)
(* 290-305, 343-376).                                                        *)
WrittenReadsBack ==
  \A f \in DOMAIN disk, o \in Objects :
    author[f] = o /\ (\A c \in Calls : doing[c] \in {"open", "mark"} => File(c) # f) =>
      /\ Meaning(o[1], View(o, f)) = Meaning(o[1], meant[f])
      /\ \A x \in View(o, f) : HeldBy(o[1], x) = {}

Misleading == {f \in Files : \E t \in Threads : Resolve(t, Shown(t, f)) # f}

(* The name that ls, glob or grep shows for a file, and the text of a masked *)
(* path, lead to the same file again (sandbox.go 226-255).                   *)
ShownNamesResolve == DOMAIN disk \intersect Misleading = {}

(* Where a tool of thread t may write, told path p: in the mounts of its     *)
(* thread, if the innermost one of the file is not read-only, and outside of *)
(* them only what p itself is the local path of.                             *)
InBounds(t, p, f) ==
  IF HeldBy(t, f) # {} THEN ~HolderOf(t, f).readOnly ELSE Mapped(p) = {} /\ f = p

Changed == {f \in Files : (f \in DOMAIN disk') # (f \in DOMAIN disk) \/ (f \in DOMAIN disk /\ disk'[f] # disk[f])}

(* No name in the container, however it is spelled, leads a tool to a file   *)
(* in a read-only mount, of another thread or outside of all mounts.  A path *)
(* under no mount is used as it is, so a local path reaches what it names    *)
(* (sandbox.go 181-183, 208-223).                                            *)
WritesStayInBounds ==
  [][\A c \in Calls : doing'[c] # doing[c] =>
       \A f \in Changed : InBounds(owner[c], IF doing[c] = "use" THEN job'[c].path ELSE job[c].path, f)]_vars
=============================================================================
