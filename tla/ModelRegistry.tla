---------------------------- MODULE ModelRegistry ----------------------------
(***************************************************************************)
(* The file of the latest demand model and the ModelRegistry that serves   *)
(* it (demand_forecast/inference.py), in the one server process.           *)
(*                                                                         *)
(* The file is written in place by joblib and shutil: truncated, filled,   *)
(* and each of the two gives it a new modification time.  get_model looks  *)
(* at that time and then loads, and writers of other processes come in     *)
(* between.  Times are only ever compared with that of the file, so that a *)
(* remembered time is kept as whether it still is the time of the file.    *)
(***************************************************************************)
EXTENDS Integers

CONSTANT Writers        \* processes that write the file

Baseline == 0           \* the version of no model: predict falls back to averages

VARIABLES
    latest,     \* demand_lightgbm_latest.joblib: state and version
    writing,    \* writer -> "no", "alone" or "mixed" with what another one writes
    loads,      \* whether BaseModel.load makes a model of a whole file
    cached,     \* _models and _model_timestamps of the registry, if any
    reader      \* a prediction: where in get_model it is, current_mtime, and the version
                \* that get_model returned

fileVars == <<latest, writing>>
registryVars == <<cached, reader>>

Idle == [pc |-> "idle", current |-> FALSE, version |-> Baseline]

\* BaseModel.load instantiates the abstract class it is called on, and raises: as
\* the repository is, nothing ever loads.  The other choice is a load that works.
RegistryInit ==
    /\ latest = [state |-> "absent", version |-> Baseline]
    /\ writing = [w \in Writers |-> "no"]
    /\ loads \in BOOLEAN
    /\ cached = {}
    /\ reader = Idle

-----------------------------------------------------------------------------
(* Writers. *)

\* The file has a new modification time.
Touch ==
    /\ cached' = {[entry EXCEPT !.current = FALSE] : entry \in cached}
    /\ reader' = [reader EXCEPT !.current = FALSE]

BeginWrite(w) ==
    /\ writing[w] = "no"
    /\ latest' = [latest EXCEPT !.state = "torn"]
    /\ writing' = [x \in Writers |->
          CASE x = w -> IF \A y \in Writers : writing[y] = "no" THEN "alone" ELSE "mixed"
            [] x # w -> IF writing[x] = "no" THEN "no" ELSE "mixed"]
    /\ Touch

\* Mutant: the copy gets the time of an older file, which is not after any other.
EndWriteKeepingTime(w, version) ==
    /\ writing[w] # "no"
    /\ latest' = [state |-> IF writing[w] = "alone" THEN "whole" ELSE "torn", version |-> version]
    /\ writing' = [writing EXCEPT ![w] = "no"]
    /\ cached' = {[entry EXCEPT !.current = TRUE] : entry \in cached}
    /\ UNCHANGED reader

EndWrite(w, version) ==
    /\ writing[w] # "no"
    /\ latest' = [state |-> IF writing[w] = "alone" THEN "whole" ELSE "torn", version |-> version]
    /\ writing' = [writing EXCEPT ![w] = "no"]
    /\ Touch

\* A writer that dies leaves what it has written.
Abandoned(w) == writing' = [writing EXCEPT ![w] = "no"] /\ UNCHANGED latest

-----------------------------------------------------------------------------
(* get_model. *)

Answer(current, version) == reader' = [pc |-> "answered", current |-> current, version |-> version]

GetAbsent ==
    /\ reader.pc = "idle" /\ latest.state = "absent"
    /\ Answer(TRUE, Baseline)
    /\ UNCHANGED cached

\* Mutant: what is cached is served whatever the file is.
GetCachedForever ==
    /\ reader.pc = "idle" /\ latest.state # "absent"
    /\ \E entry \in cached : Answer(TRUE, entry.version)
    /\ UNCHANGED cached

GetCached ==
    /\ reader.pc = "idle" /\ latest.state # "absent"
    /\ \E entry \in cached : entry.current /\ Answer(TRUE, entry.version)
    /\ UNCHANGED cached

Stat ==
    /\ reader.pc = "idle" /\ latest.state # "absent"
    /\ \A entry \in cached : ~entry.current
    /\ reader' = [reader EXCEPT !.pc = "load", !.current = TRUE]
    /\ UNCHANGED cached

\* The model is cached under the time of before the load.
Load ==
    /\ reader.pc = "load"
    /\ loads /\ latest.state = "whole"
    /\ cached' = {[version |-> latest.version, current |-> reader.current]}
    /\ Answer(reader.current, latest.version)

\* A file that is torn does not load.  What was cached stays, and is not what
\* get_model returns.
LoadFails ==
    /\ reader.pc = "load"
    /\ ~loads \/ latest.state = "torn"
    /\ Answer(reader.current, Baseline)
    /\ UNCHANGED cached

\* The prediction is made, with features that take a while to extract, and sent.
Respond ==
    /\ reader.pc = "answered"
    /\ reader' = Idle
    /\ UNCHANGED cached

GetModel == GetAbsent \/ GetCached \/ Stat \/ Load \/ LoadFails

\* The registry is a singleton in memory.
RestartRegistry == cached' = {} /\ reader' = Idle

-----------------------------------------------------------------------------

\* A model that is cached with the modification time the file has now is the model
\* in the file.
CacheMatchesFile ==
    \A entry \in cached :
        entry.current => loads /\ latest = [state |-> "whole", version |-> entry.version]

\* "Auto-reloads if file has changed" (get_model): unless the file has changed since
\* it looked, what get_model answered is the whole model that is in the file, and
\* the baseline if that model does not load.
AnswersFollowFile ==
    reader.pc = "answered" /\ reader.current =>
        reader.version = IF loads /\ latest.state = "whole" THEN latest.version ELSE Baseline
=============================================================================
