SPECIFICATION Spec
INVARIANT SyscallContext
CHECK_DEADLOCK FALSE
