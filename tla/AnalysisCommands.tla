--------------------------- MODULE AnalysisCommands ---------------------------
(***************************************************************************)
(* The commands on captures that are already on disk (cli.py): mark and    *)
(* segment, decode, diff and report.  The three families share no file     *)
(* and no memory, so a behaviour runs the commands of one of them, with    *)
(* every interleaving inside it.                                           *)
(***************************************************************************)
EXTENDS MarkStore, KaitaiCache, Reporting

VARIABLE family   \* "marks", "decode" or "reports"

commandVars == <<storeVars, cacheVars, reportVars, family>>

CommandInit ==
  /\ family \in {"marks", "decode", "reports"}
  /\ StoreInit /\ CacheInit /\ ReportInit
  (* the other families start from one state *)
  /\ family # "marks" => (mode = [f \in Files |-> "absent"] /\ events = << >>)
  /\ family # "decode" => schema = CHOOSE v \in Versions : TRUE

CommandNext ==
  \/ family = "marks" /\ StoreNext /\ UNCHANGED <<cacheVars, reportVars, family>>
  \/ family = "decode" /\ CacheNext /\ UNCHANGED <<storeVars, reportVars, family>>
  \/ family = "reports" /\ ReportNext /\ UNCHANGED <<storeVars, cacheVars, family>>

CommandSpec == CommandInit /\ [][CommandNext]_commandVars
=============================================================================
