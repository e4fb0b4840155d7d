----------------------------- MODULE EntropyPool -----------------------------
(***************************************************************************)
(* The entropy pool of a process and the seed file that carries it to the  *)
(* next one (os9/ostls_entropy.c).  The pool is a running hash: what it    *)
(* has absorbed, in order; what is extracted under a tag is a term built   *)
(* from the tag and the pool, so that two extractions give the same bytes  *)
(* exactly if both agree.  The samples are as poor as they may be: clocks  *)
(* that say the same at every boot.  The machine may stop at any time,     *)
(* also inside OSTLS_SaveSeed.                                             *)
(***************************************************************************)
EXTENDS Integers, Sequences

CONSTANTS
    Sample,          \* what clocks, mouse and stack address may say
    MaxProcesses,    \* bound: processes that use the library, one after the other
    MaxPool,         \* bound: what a pool absorbs
    MaxDrawn,        \* bound: extractions in all
    MaxLost          \* bound: how often the disk fails or the machine stops in a save

VARIABLES
    file,        \* the seed file
    proc,        \* the number of the process
    up,          \* it runs
    inited,      \* g_pool_init
    pool,        \* g_pool: what it absorbed
    saved,       \* g_seed_saved
    saving,      \* where OSTLS_SaveSeed is, the seed it extracted, the file before
    drawn,       \* history: what was extracted, by whom, for what
    origin,      \* history: how many saves had been completed when the pool was begun
    saves,       \* history: how many saves were completed
    lost         \* history: how often a seed could not be written or read, or a save was cut short

poolVars == <<inited, pool>>
history == <<drawn, origin, saves, lost>>
entropyVars == <<file, proc, up, poolVars, saved, saving, history>>

-------------------------------------------------------------------------------
(* Terms: samples and file contents are atoms.                             *)
Atom(name) == [tag |-> name, of |-> <<>>]
Extracted(use, p) == [tag |-> use, of |-> p]
Short(seed) == [tag |-> "short", of |-> <<seed>>]

Absent == Atom("absent")
Empty == Atom("empty")
Loadable(f) == f \notin {Absent, Empty}

Save(at, seed, old) == [at |-> at, seed |-> seed, old |-> old]
NotSaving == Save("no", Absent, Absent)
SaveCalled == Save("begin", Absent, Absent)

EntropyInit ==
    /\ file \in {Absent, Atom("older seed")}
    /\ proc = 0 /\ up = FALSE
    /\ inited = FALSE /\ pool = <<>> /\ saved = FALSE /\ saving = NotSaving
    /\ drawn = <<>> /\ origin = 0 /\ saves = 0 /\ lost = 0

(* A process starts: its static variables are as Ended left them.          *)
StartProcess ==
    /\ ~ up /\ proc < MaxProcesses
    /\ proc' = proc + 1 /\ up' = TRUE
    /\ UNCHANGED <<file, poolVars, saved, saving, history>>

-------------------------------------------------------------------------------
(* OSTLS_LoadSeed inside pool_ensure_init: the file, if it can be read.    *)
SeedRead(ok) == IF ok /\ Loadable(file) THEN <<file>> ELSE <<>>

(* pool_ensure_init: the pool with which a call works.                     *)
Ready(ok) == IF inited THEN pool ELSE SeedRead(ok)

Loses(so) == lost' = (IF so THEN lost + 1 ELSE lost) /\ lost' <= MaxLost
SeedMissed(ok) == ~ inited /\ ~ ok /\ Loadable(file)
NoteOrigin == origin' = IF inited THEN origin ELSE saves

Busy == up /\ saving = NotSaving

(* OSTLS_CollectEntropy, OSTLS_StirTimer and OSTLS_StirEntropy: what they  *)
(* fold in, one or several samples, is one item.                           *)
Stir ==
    /\ Busy
    /\ \E s \in Sample, ok \in BOOLEAN :
         /\ Len(Ready(ok)) < MaxPool
         /\ pool' = Append(Ready(ok), Atom(s)) /\ inited' = TRUE
         /\ NoteOrigin /\ Loses(SeedMissed(ok))
    /\ UNCHANGED <<file, proc, up, saved, saving, drawn, saves>>

(* OSTLS_LoadSeed called by the host: pool_update begins the pool first,   *)
(* which loads the file as well.                                           *)
HostLoads ==
    /\ Busy /\ Loadable(file) /\ Len(Ready(TRUE)) < MaxPool
    /\ pool' = Append(Ready(TRUE), file) /\ inited' = TRUE
    /\ NoteOrigin /\ UNCHANGED lost
    /\ UNCHANGED <<file, proc, up, saved, saving, drawn, saves>>

(* Variant: the extracted bytes are not folded back.                       *)
NotFolded(use, p) == p

(* pool_extract: the pool after it.                                        *)
Folded(use, p) == Append(p, Extracted(use, p))

Draw(use, p, from) == [proc |-> proc, use |-> use, value |-> Extracted(use, p), origin |-> from]

(* OSTLS_InjectEntropy: fresh state, the seed for BearSSL, and the first   *)
(* time in the process the save.                                           *)
InjectEntropy ==
    /\ Busy /\ Len(drawn) < MaxDrawn
    /\ \E s \in Sample, ok \in BOOLEAN :
         LET p == Append(Ready(ok), Atom(s)) IN
         /\ Len(p) < MaxPool
         /\ pool' = Folded("inject", p) /\ inited' = TRUE
         /\ NoteOrigin /\ Loses(SeedMissed(ok))
         /\ drawn' = Append(drawn, Draw("inject", p, origin'))
    /\ saving' = IF saved THEN NotSaving ELSE SaveCalled
    /\ saved' = TRUE
    /\ UNCHANGED <<file, proc, up, saves>>

(* OSTLS_RandomBytes for two blocks; the self-test's batch is drawn in the *)
(* same way under its own tag.                                             *)
RandomBytes ==
    /\ Busy /\ Len(drawn) + 1 < MaxDrawn
    /\ \E s \in Sample, ok \in BOOLEAN :
         LET p == Append(Ready(ok), Atom(s))
             q == Folded("random", p) IN
         /\ Len(p) + 1 < MaxPool
         /\ pool' = Folded("random", q) /\ inited' = TRUE
         /\ NoteOrigin /\ Loses(SeedMissed(ok))
         /\ drawn' = drawn \o <<Draw("random", p, origin'), Draw("random", q, origin')>>
    /\ UNCHANGED <<file, proc, up, saved, saving, saves>>

-------------------------------------------------------------------------------
(* OSTLS_SaveSeed, a step for each call of the File Manager that changes   *)
(* the disk.                                                               *)
HostSaves ==
    /\ Busy /\ saving' = SaveCalled
    /\ UNCHANGED <<file, proc, up, poolVars, saved, history>>

(* The path is not resolved: nothing happens.                              *)
SaveGivesUp ==
    /\ saving.at = "begin" /\ up
    /\ saving' = NotSaving
    /\ UNCHANGED <<file, proc, up, poolVars, saved, history>>

(* The seed is extracted and the file deleted and created anew.  FSpDelete *)
(* and FSpCreate may fail, which leaves the old file or none.              *)
SaveRecreates ==
    /\ saving.at = "begin" /\ up /\ Len(drawn) < MaxDrawn
    /\ \E ok, created \in BOOLEAN :
         LET p == Ready(ok) IN
         /\ Len(p) < MaxPool
         /\ pool' = Folded("file", p) /\ inited' = TRUE
         /\ NoteOrigin /\ Loses(~ created \/ SeedMissed(ok))
         /\ drawn' = Append(drawn, Draw("file", p, origin'))
         /\ file' \in IF created THEN {Empty} ELSE {file, Absent}
         /\ saving' = IF created THEN Save("write", Extracted("file", p), file)
                                  ELSE NotSaving
    /\ UNCHANGED <<proc, up, saved, saves>>

(* FSpOpenDF and FSWrite, of all, some or nothing of it.                   *)
SaveWrites ==
    /\ saving.at = "write" /\ up
    /\ file' \in {saving.seed, Short(saving.seed), Empty}
    /\ Loses(file' # saving.seed)
    /\ saving' = [saving EXCEPT !.at = "flush"]
    /\ UNCHANGED <<proc, up, poolVars, saved, drawn, origin, saves>>

(* FSClose and FlushVol.                                                   *)
SaveFlushes ==
    /\ saving.at = "flush" /\ up
    /\ saving' = NotSaving /\ saves' = saves + 1
    /\ UNCHANGED <<file, proc, up, poolVars, saved, drawn, origin, lost>>

SaveSeed == SaveGivesUp \/ SaveRecreates \/ SaveWrites \/ SaveFlushes

-------------------------------------------------------------------------------
Ended ==
    /\ up' = FALSE
    /\ inited' = FALSE /\ pool' = <<>> /\ saved' = FALSE /\ saving' = NotSaving

(* The process ends, between two calls.                                    *)
Quit == Busy /\ Ended /\ UNCHANGED <<file, proc, history>>

(* The machine stops.  Until FlushVol the disk may hold any stage of what  *)
(* the File Manager did since the delete.                                  *)
Crash ==
    /\ up /\ Ended
    /\ IF saving.at \in {"write", "flush"}
       THEN file' \in {saving.old, Absent, Empty, Short(saving.seed), file} /\ Loses(TRUE)
       ELSE UNCHANGED <<file, lost>>
    /\ UNCHANGED <<proc, drawn, origin, saves>>

EntropyNext ==
    \/ StartProcess \/ Stir \/ HostLoads \/ InjectEntropy \/ RandomBytes \/ HostSaves
    \/ SaveSeed \/ Quit \/ Crash

EntropySpec == EntropyInit /\ [][EntropyNext]_entropyVars

-------------------------------------------------------------------------------
(* Properties.                                                             *)

(* A seed was extracted before anything had been folded into the pool.     *)
SavedBare == \E i \in DOMAIN drawn : drawn[i].use = "file" /\ drawn[i].value.of = <<>>

(* Even if clocks, mouse and stack say the same at every boot, no two      *)
(* extractions give the same bytes: not the blocks of one process, not     *)
(* the seed file and what a handshake or a caller was given, and not two   *)
(* processes between whose first uses a save was completed; unless a save  *)
(* failed or was cut short, or was made from an empty pool.                *)
Independent ==
    ~ SavedBare =>
    \A j \in DOMAIN drawn : \A i \in 1..(j - 1) :
        drawn[i].value = drawn[j].value =>
            /\ drawn[i].use = drawn[j].use /\ drawn[i].proc # drawn[j].proc
            /\ drawn[i].origin = drawn[j].origin \/ lost > 0

===============================================================================
