-------------------------------- MODULE MCFiles --------------------------------
(***************************************************************************)
(* What the bank leaves on the disk: ReportFiles with three calls, each    *)
(* two of which share a part, and AuditLog.  The two have no file and no   *)
(* variable in common, so their steps need no interleaving: the journal    *)
(* is written where the calls broke off before they looked at anything.    *)
(***************************************************************************)
EXTENDS AuditLog, ReportFiles

CONSTANTS x, y, z, p, q, r

MCOrder == <<p, q, r>>
MCParts == [c \in Calls |-> CASE c = x -> <<p, q>> [] c = y -> <<q, r>> [] c = z -> <<p, r>>]

diskVars == <<auditVars, filesVars>>

Exports == FilesNext /\ UNCHANGED auditVars

Journal == /\ \A c \in Calls : state[c] = "broken" /\ attempt[c] = 1 /\ checked[c] = 0
           /\ AuditNext /\ UNCHANGED filesVars

DiskNext == Exports \/ Journal

DiskInit == AuditInit /\ FilesInit

DiskSpec == /\ DiskInit
            /\ [][DiskNext]_diskVars
            /\ \A c \in Calls : WF_filesVars(Write(c))
=============================================================================
