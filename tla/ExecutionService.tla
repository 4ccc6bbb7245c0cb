-------------------------- MODULE ExecutionService --------------------------
(***************************************************************************)
(* The consumer loop of services/execution/src/index.ts, a second process  *)
(* with a group of its own on events:trade.  What the executor of a mode   *)
(* does is abstracted to the status it may return: paperFill always fills, *)
(* the on-chain executor refuses directional trades, and a cycle can end   *)
(* either way.                                                             *)
(***************************************************************************)
EXTENDS RedisBus

CONSTANTS ExecReadCount,   \* COUNT of its XREADGROUP, 8
          ExecModes        \* EXEC_MODE: "paper" or "onchain"; "off": not deployed

ASSUME ExecutionAssumption ==
    ExecReadCount \in Nat \ {0} /\ ExecModes \subseteq {"paper", "onchain", "off"}

VARIABLES mode,      \* how the service is configured; never changes
          exec,      \* the group "execution" with its consumer
          epc,       \* where the loop stands on Current(exec)
          execFill,  \* status of the fill in hand
          execCut    \* history: trades whose handling an error or a crash cut short

execVars == <<mode, exec, epc, execFill, execCut>>

ExecPc == {"idle", "execute", "release"}

ExecInit == /\ mode \in ExecModes
            /\ exec = NewGroup
            /\ epc = "idle"
            /\ execFill = "none"
            /\ execCut = {}

ExecTypeOK == /\ mode \in ExecModes
              /\ exec \in Group
              /\ epc \in ExecPc
              /\ execFill \in FillType \cup {"none"}
              /\ execCut \subseteq Trades

ecur == Current(exec).id

Statuses(t) == IF mode = "paper" THEN {"trade.executed"}
               ELSE IF t \in Directional THEN {"trade.failed"} ELSE FillType

EGoto(l) == epc' = l

EDone == EGoto("idle") /\ exec' \in Advanced(exec, {"trade.approved"})

-----------------------------------------------------------------------------
EFetch == /\ mode # "off"
          /\ epc = "idle" /\ CanFetch(exec)
          /\ exec' \in Fetched(exec, ExecReadCount, {"trade.approved"})
          /\ UNCHANGED <<redisVars, mode, epc, execFill, execCut>>

EReserve == /\ epc = "idle" /\ Holds(exec)
            /\ positions' = positions \cup {ecur}
            /\ EGoto("execute")
            /\ UNCHANGED <<stream, mode, exec, execFill, execCut>>

EExecute == /\ epc = "execute"
            /\ execFill' \in Statuses(ecur)
            /\ Publish(execFill', ecur, "execution")
            /\ EGoto("release")
            /\ UNCHANGED <<positions, mode, exec, execCut>>

(* An executed directional trade keeps its position.                       *)
ERelease == /\ epc = "release"
            /\ positions' = IF ecur \notin Directional \/ execFill = "trade.failed"
                            THEN positions \ {ecur} ELSE positions
            /\ execFill' = "none"
            /\ EDone
            /\ UNCHANGED <<stream, mode, execCut>>

ExecStep == EFetch \/ EReserve \/ EExecute \/ ERelease

-----------------------------------------------------------------------------
(* Redis raised inside the try block: logged, then acknowledged.           *)
EHandlerError == /\ Holds(exec)
                 /\ execCut' = execCut \cup {ecur}
                 /\ execFill' = "none"
                 /\ EDone
                 /\ UNCHANGED <<redisVars, mode>>

(* Redis raised outside it (process.exit(1)), or the process was killed;   *)
(* it is restarted and reads new entries only.                             *)
ExecRestart == /\ Holds(exec)
               /\ exec' = Restarted(exec)
               /\ execCut' = execCut \cup Undone(exec)
               /\ EGoto("idle")
               /\ execFill' = "none"
               /\ UNCHANGED <<redisVars, mode>>
=============================================================================
