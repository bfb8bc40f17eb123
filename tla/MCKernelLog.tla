---------------------------- MODULE MCKernelLog ----------------------------
(* KernelLogWatcher on a small log, for TLC.                               *)
EXTENDS KernelLog

\* One log to follow: paths share nothing but the watcher's last error.
MCPATHS == <<"kern.log">>
=============================================================================
