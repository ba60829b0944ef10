------------------------------ MODULE PipeInode ------------------------------
(***************************************************************************)
(* What pipes and FIFOs have in common: the fields of the inode that both  *)
(* use (pipe_fs_i.h), and the processes that use them.                     *)
(***************************************************************************)
CONSTANT Procs         \* the processes that share the pipe, or open the FIFO

VARIABLES
    readers, writers,  \* PIPE_READERS, PIPE_WRITERS
    base,              \* PIPE_BASE
    pc,                \* where each process is
    asleep,            \* processes TASK_INTERRUPTIBLE on PIPE_WAIT
    sig,               \* processes with current->signal & ~current->blocked
    nonblock           \* filp->f_flags & O_NONBLOCK

=============================================================================
