----------------------------- MODULE ToolCache -----------------------------
(***************************************************************************)
(* ToolCache (mcp/mcp.go): the MCP tools, loaded when they are first asked *)
(* for and again when the configuration file has changed.  c.mu is held    *)
(* while they are loaded, which keeps other callers out, but not those who *)
(* edit the file: the loader reads it, and its modification time is taken  *)
(* when the loader is done.                                                *)
(*                                                                         *)
(* A version of the file stands for its content, the tools loaded from it  *)
(* and its modification time, which edits increase.                        *)
(***************************************************************************)
EXTENDS Naturals

CONSTANTS
  None,
  MaxEdits, MaxFaults     \* bounds: versions of the file, failures

VARIABLES
  file,                   \* its version
  cache, configMtime,     \* None: not initialized, not known
  loading,                \* the call that holds c.mu: [by, read], or None
  pools,                  \* has a reset closed the session pool, and no call loaded since?
  served,                 \* history: what GetCached returned last: [tools, due, sure]
  edited,                 \* history: the last version no load has missed
  faults

fileVars == <<file, edited>>
vars == <<fileVars, cache, configMtime, loading, pools, served, faults>>

ConstantsAssumption ==
  /\ {MaxEdits, MaxFaults} \subseteq Nat
  /\ None \notin Nat \union [by : {"GetCached", "Initialize"}, read : Nat \union {None}]

Versions == 0..MaxEdits
Methods  == {"GetCached", "Initialize"}

TypeOK ==
  /\ {file, edited} \subseteq Versions /\ edited <= file
  /\ cache \in Versions \union {None} /\ configMtime \in Versions \union {None}
  /\ cache = None => configMtime = None
  /\ loading = None \/ loading \in [by : Methods, read : Versions \union {None}]
  /\ loading # None => cache = None
  /\ pools \in BOOLEAN /\ faults \in 0..MaxFaults
  /\ served = None \/ served \in [tools : Versions \union {None}, due : Versions, sure : BOOLEAN]

Init ==
  /\ file = 0 /\ edited = 0
  /\ cache = None /\ configMtime = None /\ loading = None
  /\ pools = FALSE /\ served = None /\ faults = 0

(* Somebody edits the file; a load that has read it does not notice.         *)
Edit ==
  /\ file < MaxEdits /\ file' = file + 1
  /\ edited' = IF loading # None /\ loading.read # None THEN edited ELSE file'
  /\ UNCHANGED <<cache, configMtime, loading, pools, served, faults>>

(* What mtimeFn says: None if there is no telling.                           *)
Mtime(fault) == IF fault THEN None ELSE file

MayFail(fault) == /\ fault => faults < MaxFaults
                  /\ faults' = IF fault THEN faults + 1 ELSE faults

(* Faulty: the time kept is a pointer to the file's. *)
StaleNever(mtime) == FALSE

(* isStale: what cannot be compared is not stale.                            *)
Stale(mtime) == mtime # None /\ configMtime # None /\ mtime > configMtime

(* resetLocked, with onReset.                                                *)
Discard == cache' = None /\ configMtime' = None

(* GetCached and Initialize: what is there is returned; Initialize does not  *)
(* ask if it is stale.                                                       *)
Ask(m, fault) ==
  /\ loading = None /\ MayFail(fault)
  /\ LET stale == m = "GetCached" /\ cache # None /\ Stale(Mtime(fault)) IN
     \/ /\ cache # None /\ ~stale
        /\ served' = IF m = "GetCached"
                     THEN [tools |-> cache, due |-> edited, sure |-> configMtime # None /\ ~fault] ELSE served
        /\ UNCHANGED <<cache, configMtime, loading, pools>>
     \/ /\ cache = None \/ stale
        /\ IF stale THEN Discard /\ pools' = TRUE ELSE UNCHANGED <<cache, configMtime, pools>>
        /\ loading' = [by |-> m, read |-> None]
        /\ UNCHANGED served
  /\ UNCHANGED fileVars

(* The loader reads the file.                                                *)
Load ==
  /\ loading # None /\ loading.read = None
  /\ loading' = [loading EXCEPT !.read = file]
  /\ UNCHANGED <<fileVars, cache, configMtime, pools, served, faults>>

(* The loader fails: GetCached returns no tools, Initialize an error.        *)
LoadFails ==
  /\ loading # None /\ MayFail(TRUE)
  /\ loading' = None
  /\ served' = IF loading.by = "GetCached" THEN [tools |-> None, due |-> edited, sure |-> FALSE] ELSE served
  /\ UNCHANGED <<fileVars, cache, configMtime, pools>>

Store(fault) ==
  /\ loading # None /\ loading.read # None /\ MayFail(fault)
  /\ cache' = loading.read /\ configMtime' = Mtime(fault)
  /\ served' = IF loading.by = "GetCached" THEN [tools |-> loading.read, due |-> edited, sure |-> TRUE] ELSE served
  /\ loading' = None /\ pools' = FALSE
  /\ UNCHANGED fileVars

Reset ==
  /\ loading = None
  /\ Discard /\ pools' = TRUE
  /\ UNCHANGED <<fileVars, loading, served, faults>>

Next ==
  \/ Edit \/ Load \/ LoadFails \/ Reset
  \/ \E fault \in BOOLEAN : Store(fault) \/ \E m \in Methods : Ask(m, fault)

Spec == Init /\ [][Next]_vars

-----------------------------------------------------------------------------
(* Properties.                                                               *)

(* An edit reaches the agents: GetCached returns no tools older than the     *)
(* last edit, unless that was made after the loader had read the file and    *)
(* before its time was taken, or the time could not be told.                 *)
ServedIsDue == served # None /\ served.sure => served.tools >= served.due
=============================================================================
