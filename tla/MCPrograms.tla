---------------------------- MODULE MCPrograms ----------------------------
(***************************************************************************)
(* The models of what has to go on for as long as a process lives, the     *)
(* FastCGI server, the cache of compiled files, the trigger of the         *)
(* collector and sorting, in one state space: part says which of them      *)
(* moves, the variables of the others stay as they are, those of Sort      *)
(* after the sort of an array of two equal elements, the rest as they      *)
(* start.                                                                  *)
(***************************************************************************)
EXTENDS FcgiServer, ScriptCache, Sort

VARIABLES part, used, start, next, created, sets, peak

serverVars == vars
triggerVars == <<used, start, next, created, sets, peak>>

\* Ints of five bits
Trigger == INSTANCE GCTrigger WITH
    Width <- 5, Period <- 2, MinStart <- 1, InitStart <- 2, MaxSet <- 1

ASSUME ScriptCacheAssumption /\ Trigger!GCTriggerAssumption /\ SortAssumption

-----------------------------------------------------------------------------
TriggerRests == used = 0 /\ Trigger!Init

SortRests ==
    /\ arr = <<1, 2>> /\ rank = <<1, 1>> /\ comparator = "values" /\ phase = "done"
    /\ lo = 1 /\ hi = 1 /\ l = 1 /\ h = 1 /\ p = 3 /\ max = 1
    /\ stk = << >> /\ terminated = FALSE /\ raised = FALSE

MCInit ==
    \/ part = "server" /\ Init /\ CacheInit /\ TriggerRests /\ SortRests
    \/ part = "cache" /\ CacheInit /\ Init /\ TriggerRests /\ SortRests
    \/ part = "trigger" /\ Trigger!Init /\ Init /\ CacheInit /\ SortRests
    \/ part = "sort" /\ SortInit /\ Init /\ CacheInit /\ TriggerRests

server(A) == part = "server" /\ A /\ UNCHANGED <<part, cacheVars, triggerVars, sortVars>>
cache(A) == part = "cache" /\ A /\ UNCHANGED <<part, serverVars, triggerVars, sortVars>>
trigger(A) == part = "trigger" /\ A /\ UNCHANGED <<part, serverVars, cacheVars, sortVars>>
sort(A) == part = "sort" /\ A /\ UNCHANGED <<part, serverVars, cacheVars, triggerVars>>

MCNext == server(Next) \/ cache(CacheNext) \/ trigger(Trigger!Next) \/ sort(SortNext)

mcVars == <<part, serverVars, cacheVars, triggerVars, sortVars>>

\* The fairness of FcgiServer, GCTrigger and Sort
MCFairness ==
    /\ \A t \in Threads : WF_mcVars(server(run(t))) /\ SF_mcVars(server(lock(t)))
    /\ WF_mcVars(trigger(Trigger!Create \/ Trigger!CreateAndCollect))
    /\ WF_mcVars(sort(SortNext))

MCSpec == MCInit /\ [][MCNext]_mcVars /\ MCFairness

-----------------------------------------------------------------------------
\* The threshold follows the memory in use: see GCTrigger.TriggerSound
TriggerSound == Trigger!TriggerSound
=============================================================================
