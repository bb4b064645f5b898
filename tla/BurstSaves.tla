----------------------------- MODULE BurstSaves ------------------------------
(***************************************************************************)
(* Saving in the gateway: the save handlers of data-gateway/src/web_server.rs *)
(* and the directory of file_manager.rs.  A handler takes the processor's   *)
(* lock once to look the burst up and once per format to export it, writes  *)
(* one file per format, and at last lists the root directory and removes    *)
(* what exceeds the limit, one file at a time.  Nothing of this is one step: *)
(* other handlers, deletions and evictions come in between.                 *)
(*                                                                         *)
(* A file is its path, what was exported into it and its rank by creation   *)
(* time, which overwriting keeps.  Every path here is a legal one; the       *)
(* rejection of others (sanitize_rel_path, safe_join) is an Ask that fails. *)
(***************************************************************************)
EXTENDS Naturals, Sequences, SequencesExt, FiniteSets, Functions

CONSTANTS
  Savers,       (* requests that may be under way at once                    *)
  Bursts,       (* burst ids                                                 *)
  FormatLists,  (* the formats a request may ask for, as sequences           *)
  Names,        (* file names a request may choose; else the burst's own      *)
  Dirs,         (* "root" and subdirectories                                 *)
  MaxFiles,     (* cfg.storage.max_files                                     *)
  MaxAsks       (* bound of a run                                            *)

ASSUME MaxFilesAssumption == MaxFiles \in Nat

VARIABLES
  cache,        (* bursts in the processor's cache                            *)
  files,        (* path -> [of, born]                                        *)
  now,          (* how many files were created                               *)
  req,          (* per handler: its request                                  *)
  asks, failed, (* history: requests made; whether one ended without cleanup  *)
  crowded       (* history: two requests have been under way at once          *)

savesVars == <<cache, files, now, req, asks, failed, crowded>>

NoRequest == [at |-> "idle", of |-> "none", path |-> <<>>, todo |-> <<>>, done |-> <<>>,
         created |-> {}, doomed |-> {}, ok |-> FALSE]
NoSaves == \A r \in Savers : req[r].at \in {"idle", "answer"}

(* Another request is under way.                                             *)
Others(r) == \E o \in Savers \ {r} : req[o].at # "idle"

RootFiles == {p \in DOMAIN files : p[1] = "root"}

-----------------------------------------------------------------------------
(* The formats of a request, trimmed and in lower case: sorted, without       *)
(* repetition, and then mapped, so that bin and binary become two binaries.  *)
Supported == {"bin", "binary", "csv", "json"}
Canonical(f) == IF f = "bin" THEN "binary" ELSE f
Asked(f, list) == IF f \in ToSet(list) THEN <<Canonical(f)>> ELSE <<>>
Normalised(list) ==
  Asked("bin", list) \o Asked("binary", list) \o Asked("csv", list) \o Asked("json", list)

Finish(r, ok) == req' = [req EXCEPT ![r].at = "answer", ![r].ok = ok]

SavesInit ==
  /\ cache = {} /\ files = [p \in {} |-> 0] /\ now = 0
  /\ req = [r \in Savers |-> NoRequest]
  /\ asks = 0 /\ failed = FALSE /\ crowded = FALSE

(* save_trigger_burst: formats, lookup, name.                                *)
Ask(r) ==
  /\ req[r].at = "idle" /\ asks < MaxAsks
  /\ asks' = asks + 1 /\ crowded' = (crowded \/ Others(r))
  /\ \E b \in Bursts, list \in FormatLists, d \in Dirs : \E base \in Names \cup {b} :
       IF ToSet(list) \subseteq Supported /\ b \in cache
         THEN req' = [req EXCEPT ![r] = [NoRequest EXCEPT !.at = "export", !.of = b,
                                         !.path = <<d, base>>, !.todo = Normalised(list)]]
         ELSE Finish(r, FALSE)
  /\ UNCHANGED <<cache, files, now, failed>>

(* save_waveform: an upload with a name of its own, nothing to export.        *)
Upload(r) ==
  /\ req[r].at = "idle" /\ asks < MaxAsks
  /\ asks' = asks + 1 /\ crowded' = (crowded \/ Others(r))
  /\ \E base \in Names, d \in Dirs :
       req' = [req EXCEPT ![r] = [NoRequest EXCEPT !.at = "write", !.of = "upload",
                                  !.path = <<d, base>>, !.todo = <<"wave">>]]
  /\ UNCHANGED <<cache, files, now, failed>>

(* export_trigger_burst, under the lock again: the burst may be gone, and the *)
(* files written so far stay.                                                *)
Export(r) ==
  /\ req[r].at = "export" /\ req[r].todo # <<>>
  /\ IF req[r].of \in cache
       THEN req' = [req EXCEPT ![r].at = "write"] /\ UNCHANGED failed
       ELSE Finish(r, FALSE) /\ failed' = TRUE
  /\ UNCHANGED <<cache, files, now, asks, crowded>>

(* Mutant: overwriting makes a file as young as the youngest.                 *)
WriteTouches(r) ==
  LET p   == Append(req[r].path, Head(req[r].todo))
      new == p \notin DOMAIN files
  IN  /\ req[r].at = "write"
      /\ now' = IF new THEN now + 1 ELSE now
      /\ files' = [q \in DOMAIN files \cup {p} |->
                     IF q # p THEN files[q] ELSE [of |-> req[r].of, born |-> now']]
      /\ req' = [req EXCEPT ![r].at = "export", ![r].todo = Tail(@), ![r].done = Append(@, p),
                            ![r].created = IF new THEN @ \cup {p} ELSE @]
      /\ UNCHANGED <<cache, asks, failed, crowded>>

(* save_at.                                                                  *)
Write(r) ==
  LET p   == Append(req[r].path, Head(req[r].todo))
      new == p \notin DOMAIN files
  IN  /\ req[r].at = "write"
      /\ files' = [q \in DOMAIN files \cup {p} |->
                     IF q # p THEN files[q]
                     ELSE [of |-> req[r].of, born |-> IF new THEN now + 1 ELSE files[p].born]]
      /\ now' = IF new THEN now + 1 ELSE now
      /\ req' = [req EXCEPT ![r].at = "export", ![r].todo = Tail(@), ![r].done = Append(@, p),
                            ![r].created = IF new THEN @ \cup {p} ELSE @]
      /\ UNCHANGED <<cache, asks, failed, crowded>>

WriteFails(r) ==
  /\ req[r].at = "write"
  /\ Finish(r, FALSE) /\ failed' = TRUE
  /\ UNCHANGED <<cache, files, now, asks, crowded>>

(* cleanup_old_files: what comes after the first MaxFiles of the root          *)
(* directory, newest first.                                                  *)
Younger(p) == {q \in RootFiles : files[q].born > files[p].born}

(* Mutant: the limit is compared with the files before the newest.            *)
ExcessButOne == {p \in RootFiles : Cardinality(Younger(p)) > MaxFiles}

(* Mutant: oldest first.                                                      *)
ExcessYoungest == {p \in RootFiles :
  Cardinality({q \in RootFiles : files[q].born < files[p].born}) >= MaxFiles}

Excess == {p \in RootFiles : Cardinality(Younger(p)) >= MaxFiles}

CleanupLists(r) ==
  /\ req[r].at = "export" /\ req[r].todo = <<>>
  /\ req' = [req EXCEPT ![r].at = "remove", ![r].doomed = Excess]
  /\ UNCHANGED <<cache, files, now, asks, failed, crowded>>

(* A file that disappears while it is listed makes the listing fail, and the   *)
(* cleanup is left out: its result is ignored.                               *)
CleanupFails(r) ==
  /\ req[r].at = "export" /\ req[r].todo = <<>>
  /\ \E o \in Savers \ {r} : req[o].at = "remove" /\ req[o].doomed # {}
  /\ Finish(r, TRUE) /\ failed' = TRUE
  /\ UNCHANGED <<cache, files, now, asks, crowded>>

CleanupRemoves(r) ==
  /\ req[r].at = "remove"
  /\ \E p \in req[r].doomed :
       /\ files' = Restrict(files, DOMAIN files \ {p})
       /\ req' = [req EXCEPT ![r].doomed = @ \ {p}]
  /\ UNCHANGED <<cache, now, asks, failed, crowded>>

CleanupEnds(r) ==
  /\ req[r].at = "remove" /\ req[r].doomed = {}
  /\ Finish(r, TRUE)
  /\ UNCHANGED <<cache, files, now, asks, failed, crowded>>

Answered(r) ==
  /\ req[r].at = "answer"
  /\ req' = [req EXCEPT ![r] = NoRequest]
  /\ UNCHANGED <<cache, files, now, asks, failed, crowded>>

(* Bursts complete, and are evicted or deleted (delete_trigger_burst).        *)
Complete(b) ==
  /\ b \notin cache /\ cache' = cache \cup {b}
  /\ UNCHANGED <<files, now, req, asks, failed, crowded>>
Delete(b) ==
  /\ b \in cache /\ cache' = cache \ {b}
  /\ UNCHANGED <<files, now, req, asks, failed, crowded>>

SavesNext ==
  \/ \E r \in Savers : \/ Ask(r) \/ Upload(r) \/ Export(r) \/ Write(r) \/ WriteFails(r)
                         \/ CleanupLists(r) \/ CleanupFails(r) \/ CleanupRemoves(r)
                         \/ CleanupEnds(r) \/ Answered(r)
  \/ \E b \in Bursts : Complete(b) \/ Delete(b)

SavesSpec == SavesInit /\ [][SavesNext]_savesVars

-----------------------------------------------------------------------------
SavesTypeOK ==
  /\ cache \subseteq Bursts
  /\ \A p \in DOMAIN files : files[p].of \in Bursts \cup {"upload"} /\ files[p].born \in 1..now
  /\ \A p, q \in DOMAIN files : p # q => files[p].born # files[q].born
  /\ \A r \in Savers : req[r].at \in {"idle", "export", "write", "remove", "answer"}

(* However the cleanups of several handlers overlap, the limit holds again     *)
(* when the last has answered, as long as none of them broke off.            *)
LimitKept == NoSaves /\ ~failed => Cardinality(RootFiles) <= MaxFiles

(* config.rs: the root directory keeps at most max_files files; beyond that   *)
(* the older ones are deleted.                                               *)
LimitAlwaysKept == NoSaves => Cardinality(RootFiles) <= MaxFiles

(* As long as requests do not overlap, a file this request has created is there  *)
(* when it answers, with what was exported: its own cleanup takes older ones.  *)
CreatedIsThere ==
  ~crowded => \A r \in Savers : req[r].at = "answer" /\ req[r].ok =>
    \A p \in req[r].created : p \in DOMAIN files /\ files[p].of = req[r].of

(* data-gateway/README.md: data is stored safely.  Each saved_path of an answer *)
(* is the path of a file with the data.                                      *)
SavedIsThere ==
  \A r \in Savers : req[r].at = "answer" /\ req[r].ok =>
    \A i \in DOMAIN req[r].done : req[r].done[i] \in DOMAIN files

(* web_server.rs: the list of formats is normalised and duplicates removed.   *)
(* No file is written and listed twice in one answer.                        *)
ListedOnce == \A r \in Savers : IsInjective(req[r].done)
=============================================================================
