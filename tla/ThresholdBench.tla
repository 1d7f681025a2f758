---------------------------- MODULE ThresholdBench ----------------------------
(***************************************************************************)
(* A benchmark that is stopped and run again (run and thresholds in        *)
(* exp2_threshold_query.py, load_era5 and start_run in common.py).  Every  *)
(* run records itself next to the results file, takes the thresholds of    *)
(* every variable from a file or finds them in a copy of the variable on   *)
(* disk, reads which jobs have a row already, and measures the others, one *)
(* process each.  Files outlive a process that is killed; a file that is   *)
(* written whole (write_text) is empty between its opening and its writing. *)
(* A row is appended in one write.                                         *)
(*                                                                         *)
(* Inputs are the data and the length that a run is given.  Each has its   *)
(* results file; the cache directory is shared.                            *)
(***************************************************************************)
EXTENDS Integers, FiniteSets

CONSTANTS
  Inputs,
  Data,         (* Data[i] is what a run on input i reads                  *)
  Length,       (* Length[d]: time steps of data d                         *)
  Vars,
  Jobs,
  VarOf,        (* the variable of a job                                   *)
  MaxRuns,      (* bounds of the model: processes that are started,        *)
  MaxCrashes,   (* are killed,                                             *)
  MaxFailures,  (* and jobs whose process fails                            *)
  Torn,         (* a file that was opened for writing and not written      *)
  Nothing       (* None, or no file                                        *)

ASSUME InputsAssumption == VarOf \in [Jobs -> Vars] /\ DOMAIN Data = Inputs

(* A copy is recognised by its length only: a cache directory is for data  *)
(* that differ in length.                                                  *)
ASSUME OneRawPerCache ==
  \A i, j \in Inputs : Length[Data[i]] = Length[Data[j]] => Data[i] = Data[j]

VARIABLES
  runs,     (* <out>.runs.json of each input: the runs recorded, or Torn   *)
  copy,     (* <var>.npy: the data it is a copy of, or Nothing             *)
  saved,    (* thresholds_<var>.json: Nothing, Torn or [key, of]           *)
  out,      (* <out>: for each input, its rows [job, run, of]              *)
  pc,       (* of the process, "down" when there is none                   *)
  input, run,
  known,    (* runs as start_run has read them                             *)
  ths,      (* of each variable, the data whose thresholds the run has     *)
  var,      (* the variable whose thresholds are computed                  *)
  todo,
  started, crashes, failures

files == <<runs, copy, saved, out>>
process == <<input, run, known, ths, var, todo>>
counters == <<started, crashes, failures>>
benchVars == <<files, pc, process, counters>>

NoThresholds == [v \in Vars |-> Nothing]

BenchInit ==
  /\ runs = [i \in Inputs |-> {}] /\ out = [i \in Inputs |-> {}]
  /\ copy = [v \in Vars |-> Nothing] /\ saved = [v \in Vars |-> Nothing]
  /\ pc = "down" /\ input = Nothing /\ run = 0 /\ known = {} /\ ths = NoThresholds
  /\ var = Nothing /\ todo = {}
  /\ started = 0 /\ crashes = 0 /\ failures = 0

JobsDone(i) == {r.job : r \in out[i]}

(* A process ends, and what it held is gone. *)
Stop ==
  /\ pc' = "down"
  /\ input' = Nothing /\ run' = 0 /\ known' = {} /\ ths' = NoThresholds /\ var' = Nothing /\ todo' = {}

(* The user runs the benchmark until every job has a row. *)
Launch(i) ==
  /\ pc = "down" /\ JobsDone(i) # Jobs /\ started < MaxRuns
  /\ pc' = "launched" /\ input' = i /\ started' = started + 1 /\ run' = started + 1
  /\ UNCHANGED <<files, known, ths, var, todo, crashes, failures>>

-----------------------------------------------------------------------------
(* start_run *)

ReadRuns ==
  /\ pc = "launched" /\ runs[input] # Torn
  /\ known' = runs[input] /\ pc' = "recording"
  /\ UNCHANGED <<files, input, run, ths, var, todo, counters>>

(* json.loads fails, in this run and in every later one. *)
RunsUnreadable ==
  /\ pc = "launched" /\ runs[input] = Torn
  /\ pc' = "stuck"
  /\ UNCHANGED <<files, process, counters>>

OpenRuns ==
  /\ pc = "recording"
  /\ runs' = [runs EXCEPT ![input] = Torn] /\ pc' = "writing runs"
  /\ UNCHANGED <<copy, saved, out, process, counters>>

(* Mutant: earlier runs are not kept. *)
WriteOwnRun ==
  /\ pc = "writing runs"
  /\ runs' = [runs EXCEPT ![input] = {run}] /\ known' = {} /\ pc' = "thresholds"
  /\ UNCHANGED <<copy, saved, out, input, run, ths, var, todo, counters>>

WriteRuns ==
  /\ pc = "writing runs"
  /\ runs' = [runs EXCEPT ![input] = known \cup {run}] /\ known' = {} /\ pc' = "thresholds"
  /\ UNCHANGED <<copy, saved, out, input, run, ths, var, todo, counters>>

-----------------------------------------------------------------------------
(* thresholds and load_era5 *)

Wanted(v) == pc = "thresholds" /\ ths[v] = Nothing

SavedForInput(v) == saved[v] \notin {Nothing, Torn} /\ saved[v].key = input

Reuse(v) ==
  /\ Wanted(v) /\ SavedForInput(v)
  /\ ths' = [ths EXCEPT ![v] = saved[v].of]
  /\ UNCHANGED <<files, pc, input, run, known, var, todo, counters>>

SavedUnreadable(v) ==
  /\ Wanted(v) /\ saved[v] = Torn
  /\ pc' = "stuck"
  /\ UNCHANGED <<files, process, counters>>

(* Mutant: a copy of any length is reused. *)
CopyOfAnyLength(v) == TRUE

CopyHasLength(v) == copy[v] # Nothing => Length[copy[v]] = Length[Data[input]]

(* The copy is made under another name and renamed when it is whole. *)
LoadEra5(v) ==
  /\ Wanted(v) /\ ~SavedForInput(v) /\ saved[v] # Torn /\ CopyHasLength(v)
  /\ copy' = [copy EXCEPT ![v] = IF copy[v] = Nothing THEN Data[input] ELSE copy[v]]
  /\ var' = v /\ pc' = "loaded"
  /\ UNCHANGED <<runs, saved, out, input, run, known, ths, todo, counters>>

(* "holds ... steps, not ...; delete it", and the user does. *)
RefuseCopy(v) ==
  /\ Wanted(v) /\ ~SavedForInput(v) /\ saved[v] # Torn /\ ~CopyHasLength(v)
  /\ copy' = [copy EXCEPT ![v] = Nothing]
  /\ Stop
  /\ UNCHANGED <<runs, saved, out, counters>>

(* The thresholds are those of the copy, which is then deleted. *)
Compute ==
  /\ pc = "loaded"
  /\ ths' = [ths EXCEPT ![var] = copy[var]]
  /\ copy' = [copy EXCEPT ![var] = Nothing]
  /\ pc' = "computed"
  /\ UNCHANGED <<runs, saved, out, input, run, known, var, todo, counters>>

OpenSaved ==
  /\ pc = "computed"
  /\ saved' = [saved EXCEPT ![var] = Torn]
  /\ pc' = "writing saved"
  /\ UNCHANGED <<runs, copy, out, process, counters>>

WriteSaved ==
  /\ pc = "writing saved"
  /\ saved' = [saved EXCEPT ![var] = [key |-> input, of |-> ths[var]]]
  /\ pc' = "thresholds" /\ var' = Nothing
  /\ UNCHANGED <<runs, copy, out, input, run, known, ths, todo, counters>>

-----------------------------------------------------------------------------
(* run *)

(* Mutant: the rows of an earlier run are not looked at. *)
ToDoAll == Jobs
(* Mutant: a results file that has rows is taken for complete. *)
ToDoOfNewFile == IF out[input] = {} THEN Jobs ELSE {}

ToDo == Jobs \ JobsDone(input)

ReadDone ==
  /\ pc = "thresholds" /\ \A v \in Vars : ths[v] # Nothing
  /\ todo' = ToDo /\ pc' = "jobs"
  /\ UNCHANGED <<files, input, run, known, ths, var, counters>>

(* The row is appended when the job's process has printed its result. *)
Measure(j) ==
  /\ pc = "jobs" /\ j \in todo
  /\ out' = [out EXCEPT ![input] = @ \cup {[job |-> j, run |-> run, of |-> ths[VarOf[j]]]}]
  /\ todo' = todo \ {j}
  /\ UNCHANGED <<runs, copy, saved, pc, input, run, known, ths, var, counters>>

(* A job whose process fails has no row, and the run goes on. *)
JobFails(j) ==
  /\ pc = "jobs" /\ j \in todo /\ failures < MaxFailures
  /\ todo' = todo \ {j} /\ failures' = failures + 1
  /\ UNCHANGED <<files, pc, input, run, known, ths, var, started, crashes>>

Finished ==
  /\ pc = "jobs" /\ todo = {}
  /\ Stop
  /\ UNCHANGED <<files, counters>>

Kill ==
  /\ pc \notin {"down", "stuck"} /\ crashes < MaxCrashes
  /\ Stop /\ crashes' = crashes + 1
  /\ UNCHANGED <<files, started, failures>>

Work ==
  \/ ReadRuns \/ RunsUnreadable \/ OpenRuns \/ WriteRuns
  \/ \E v \in Vars : Reuse(v) \/ SavedUnreadable(v) \/ LoadEra5(v) \/ RefuseCopy(v)
  \/ Compute \/ OpenSaved \/ WriteSaved
  \/ ReadDone \/ (\E j \in Jobs : Measure(j) \/ JobFails(j)) \/ Finished

BenchNext == (\E i \in Inputs : Launch(i)) \/ Work \/ Kill

(* A process that is not killed goes on, and the user runs every input     *)
(* again until it is complete.                                             *)
Fairness == WF_benchVars(Work) /\ \A i \in Inputs : SF_benchVars(Launch(i))

BenchSpec == BenchInit /\ [][BenchNext]_benchVars /\ Fairness

-----------------------------------------------------------------------------
(* Properties *)

(* Whatever copies and thresholds other runs left in the cache, killed or  *)
(* not, every row has the thresholds of the data of its own results file.  *)
ThresholdsOfTheirData ==
  \A i \in Inputs : \A r \in out[i] : r.of = Data[i]

(* A job is not measured again once it has a row. *)
NoRowTwice ==
  \A i \in Inputs : \A r, q \in out[i] : r.job = q.job => r = q

(* Every row's run is recorded, as long as the record can be read.         *)
RowsRecorded ==
  \A i \in Inputs : runs[i] # Torn => \A r \in out[i] : r.run \in runs[i]

(* Runs that are killed, and jobs that fail, are made up for by running    *)
(* again, unless a run was killed while it wrote a file whole.             *)
FileTorn == (\E i \in Inputs : runs[i] = Torn) \/ \E v \in Vars : saved[v] = Torn
RerunsComplete ==
  <>((\A i \in Inputs : JobsDone(i) = Jobs) \/ (FileTorn /\ pc = "stuck"))

(* Rows are neither lost track of nor measured twice.                      *)
RowsKept == NoRowTwice /\ RowsRecorded
=============================================================================
