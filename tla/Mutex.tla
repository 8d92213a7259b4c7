------------------------------- MODULE Mutex --------------------------------
(* A std::mutex is a variable that holds the thread that has locked it.     *)
CONSTANT Free            \* nobody
=============================================================================
