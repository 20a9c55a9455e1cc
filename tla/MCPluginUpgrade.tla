-------------------------- MODULE MCPluginUpgrade --------------------------
(* Small values for the constants of PluginUpgrade.                        *)
EXTENDS PluginUpgrade, TLC

CONSTANT Page  \* the caller that is the web page

\* No definition tells one PID or one directory from another.
Interchangeable == Permutations(Pids) \cup Permutations(Runtimes)
===========================================================================
