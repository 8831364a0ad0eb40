---------------------------- MODULE MCLinuxHooks ----------------------------
(* Model-checking instances of LinuxHooks. *)
EXTENDS LinuxHooks

\* The linux-native profile, with as many functions as rollback needs.
NativeVm == [heap |-> <<"malloc">>, vm |-> <<"mmap", "munmap">>]

============================================================================
