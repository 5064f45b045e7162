---------------------------- MODULE MCMutexUses ----------------------------
(***************************************************************************)
(* Two ways of using mutexes, for TLC; a behaviour is of one of them.      *)
(*                                                                         *)
(* "nested": the constants of the configuration; threads hold two mutexes  *)
(* and call everything.  "inversion": three threads that lock one mutex at *)
(* a time and sleep, and an idle one, under strict priority scheduling.    *)
(***************************************************************************)
EXTENDS MCMutex

VARIABLE usage

allVars == <<vars, usage>>

InversionPriority == [t \in Threads |-> CASE t = mid -> 1 [] t = high -> 2 [] OTHER -> 0]
InversionUses == [t \in Threads |-> IF t = urgent THEN {} ELSE {"lock", "sleep"}]

Inversion == INSTANCE Mutex WITH
                 InitialPriority <- InversionPriority, Uses <- InversionUses,
                 MaxDepth <- 0, MaxHeld <- 1, StrictPriority <- TRUE

InInversion(A) == usage = "inversion" /\ A /\ UNCHANGED usage

UsesInit ==
    \/ usage = "nested" /\ Init
    \/ usage = "inversion" /\ Inversion!Init

UsesNext ==
    \/ usage = "nested" /\ Next /\ UNCHANGED usage
    \/ InInversion(Inversion!Next)

\* In the inversion, the fairness of FairSpec.
UsesFairSpec ==
    /\ UsesInit /\ [][UsesNext]_allVars
    /\ \A t \in Threads :
          /\ WF_allVars(InInversion(Inversion!IRQwakeThreads(t)))
          /\ WF_allVars(InInversion(Inversion!LockLoop(t)))
          /\ WF_allVars(InInversion(Inversion!PKlockToDepth(t)))
          /\ \A m \in Mutexes : SF_allVars(InInversion(Inversion!PKunlock(t, m)))

\* A thread that holds one mutex at a time has, of its own priority and
\* those of the threads waiting for the mutex, the highest: InheritsHighest.
InheritsWithOneMutex == usage = "inversion" => InheritsHighest

\* With one mutex at a time and strict priority scheduling, the thread of
\* the highest priority gets the mutex it waits for: HighestGetsMutex.
HighestNotInverted == usage = "inversion" => Inversion!HighestGetsMutex
=============================================================================
