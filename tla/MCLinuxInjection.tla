-------------------------- MODULE MCLinuxInjection --------------------------
(* Model-checking instances of LinuxInjection. *)
EXTENDS LinuxInjection, TLC

Libc == [mapped |-> TRUE, elf |-> TRUE, symbols |-> {"dlopen"}, bytes |-> {"syscall_ret", "int3"}]
OldLibc == [Libc EXCEPT !.symbols = {}]
Libdl == [mapped |-> TRUE, elf |-> TRUE, symbols |-> {"dlopen"}, bytes |-> {}]
NotMapped == [mapped |-> FALSE, elf |-> FALSE, symbols |-> {}, bytes |-> {}]
AgentImage == [mapped |-> FALSE, elf |-> TRUE, symbols |-> {"bootstrap"}, bytes |-> {}]
MCTargets ==
    {[agent |-> AgentImage, libc |-> OldLibc, libdl |-> Libdl],
     [agent |-> AgentImage, libc |-> NotMapped, libdl |-> NotMapped],
     [agent |-> NotMapped, libc |-> Libc, libdl |-> NotMapped]}
=============================================================================
