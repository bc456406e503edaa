-------------------------- MODULE ScaleFilesystems ---------------------------
(***************************************************************************)
(* The Filesystem objects of Spectrum Scale and what their status tells:   *)
(* internal/helpers/scale_filesystem.go.  Preflight and the last wait of   *)
(* phase 6 judge by it.                                                    *)
(***************************************************************************)

CONSTANTS
    Filesystems,  \* names of those that may come to be
    Reports       \* the statuses they may show

VARIABLE report   \* the status of each Filesystem that is there

\* The Healthy condition, status.mounted and status.phase.
FilesystemStatus == [healthy : {"absent", "True", "False", "Unknown"},
                     mounted : {"absent", "true", "false"},
                     phase : {"absent", "Ready", "other"}]

ASSUME ReportsAssumption == Reports \subseteq FilesystemStatus

present == DOMAIN report

\* A failing condition outweighs everything, and a status.mounted the phase.
ScaleFilesystemReportsHealthy(status) ==
    /\ status.healthy # "False"
    /\ \/ status.mounted = "true"
       \/ status.healthy = "True"
       \/ (status.mounted = "absent" /\ status.phase = "Ready")

AllHealthy == \A f \in present : ScaleFilesystemReportsHealthy(report[f])

\* A Filesystem is added, or its status changes.
FilesystemShows(f, status) ==
    report' = [g \in present \cup {f} |-> IF g = f THEN status ELSE report[g]]

FilesystemsInit == \E there \in SUBSET Filesystems : report \in [there -> Reports]
=============================================================================
