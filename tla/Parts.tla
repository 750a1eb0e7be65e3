------------------------------- MODULE Parts -------------------------------
(***************************************************************************)
(* The small machines of the program that share no state: the vector the   *)
(* commands keep their operands in, timeout, tee, the captured calls of    *)
(* the library, the completion cache, the line editor and the package      *)
(* manager.  A behaviour runs one of them; the others stay as they are at  *)
(* the start.                                                              *)
(***************************************************************************)
EXTENDS SmallVector, TimeoutRun, TeeCopy, OutputCapture, CompletionCache, LineEdit,
        WpmPackages

VARIABLE part   \* the machine this behaviour runs

partsVars == <<part, vecVars, timeoutVars, teeVars, captureVars, cacheVars, lineVars, wpmVars>>

PartsInit ==
  /\ part \in {"vector", "timeout", "tee", "capture", "cache", "line", "wpm"}
  /\ VecInit /\ CaptureInit /\ CacheInit /\ LineInit /\ WpmInit
  /\ TimeoutInit /\ (part # "timeout" => wait.duration = 0)
  /\ TeeInit
  /\ part # "tee" => tee.args = <<>> /\ ~tee.append /\ ~tee.exit

PartsNext ==
  /\ UNCHANGED part
  /\ \/ /\ part = "vector" /\ VecNext
        /\ UNCHANGED <<timeoutVars, teeVars, captureVars, cacheVars, lineVars, wpmVars>>
     \/ /\ part = "timeout" /\ TimeoutNext
        /\ UNCHANGED <<vecVars, teeVars, captureVars, cacheVars, lineVars, wpmVars>>
     \/ /\ part = "tee" /\ TeeNext
        /\ UNCHANGED <<vecVars, timeoutVars, captureVars, cacheVars, lineVars, wpmVars>>
     \/ /\ part = "capture" /\ CaptureNext
        /\ UNCHANGED <<vecVars, timeoutVars, teeVars, cacheVars, lineVars, wpmVars>>
     \/ /\ part = "cache" /\ CacheNext
        /\ UNCHANGED <<vecVars, timeoutVars, teeVars, captureVars, lineVars, wpmVars>>
     \/ /\ part = "line" /\ LineNext
        /\ UNCHANGED <<vecVars, timeoutVars, teeVars, captureVars, cacheVars, wpmVars>>
     \/ /\ part = "wpm" /\ WpmNext
        /\ UNCHANGED <<vecVars, timeoutVars, teeVars, captureVars, cacheVars, lineVars>>

PartsSpec ==
  /\ PartsInit /\ [][PartsNext]_partsVars
  /\ TimeoutFairness /\ CaptureFairness

-----------------------------------------------------------------------------
\* timeout's status tells how its command ended, and tee's 0 that all was copied
\* (timeout.cpp, tee.cpp).
StatusesAreTrue == StatusTellsOutcome /\ TeeZeroMeansCopied

\* Who waits for another party gets an answer: timeout when its limit is over,
\* a captured call when its command has ended (timeout.cpp, ffi.cpp).
EveryCallReturns == TimeoutReturns /\ ExecuteReturns
=============================================================================
