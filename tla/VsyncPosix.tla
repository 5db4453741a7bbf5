----------------------------- MODULE VsyncPosix -----------------------------
(***************************************************************************)
(* sw/lib/vsync_posix.c: the C library.  Each routine is one system call,  *)
(* and the operator named after it is that call's registers; write() is a  *)
(* loop of calls.  Arguments that reach no register are left out.          *)
(***************************************************************************)
EXTENDS PosixLayer, Sequences

NULL == 0

\* Requests of ioctl: offsets of the GPIO registers (vsync_posix.h).
GPIO_SET_OUTPUT == 0
GPIO_GET_INPUT  == 4
GPIO_SET_DIR    == 8

pthread_create(thread, attr, start_routine) ==
  Syscall("PTHREAD_CREATE", thread, attr, start_routine)
pthread_exit(retval)         == Syscall("PTHREAD_EXIT", retval, 0, 0)
pthread_yield                == Syscall("PTHREAD_YIELD", 0, 0, 0)
pthread_self                 == Syscall("PTHREAD_SELF", 0, 0, 0)
pthread_join(thread, retval) == Syscall("PTHREAD_JOIN", thread, retval, 0)
pthread_detach(thread)       == Syscall("PTHREAD_DETACH", thread, 0, 0)

pthread_mutex_init(mutex, attr) == Syscall("MUTEX_INIT", mutex, attr, 0)
pthread_mutex_lock(mutex)       == Syscall("MUTEX_LOCK", mutex, 0, 0)
pthread_mutex_trylock(mutex)    == Syscall("MUTEX_TRYLOCK", mutex, 0, 0)
pthread_mutex_unlock(mutex)     == Syscall("MUTEX_UNLOCK", mutex, 0, 0)
pthread_mutex_destroy(mutex)    == Syscall("MUTEX_DESTROY", mutex, 0, 0)

sem_init(sem, pshared, value) == Syscall("SEM_INIT", sem, pshared, value)
sem_wait(sem)                 == Syscall("SEM_WAIT", sem, 0, 0)
sem_trywait(sem)              == Syscall("SEM_TRYWAIT", sem, 0, 0)
sem_post(sem)                 == Syscall("SEM_POST", sem, 0, 0)
sem_getvalue(sem, sval)       == Syscall("SEM_GETVALUE", sem, sval, 0)
sem_destroy(sem)              == Syscall("SEM_DESTROY", sem, 0, 0)

mq_open(name, oflag)                == Syscall("MQ_OPEN", name, oflag, 0)
mq_send(mqdes, msg_ptr, msg_len)    == Syscall("MQ_SEND", mqdes, msg_ptr, msg_len)
mq_receive(mqdes, msg_ptr, msg_len) == Syscall("MQ_RECEIVE", mqdes, msg_ptr, msg_len)
mq_close(mqdes)                     == Syscall("MQ_CLOSE", mqdes, 0, 0)

open(fd_type, flags)       == Syscall("OPEN", fd_type, flags, 0)
close(fd)                  == Syscall("CLOSE", fd, 0, 0)
read(fd, buf, count)       == Syscall("READ", fd, buf, count)
ioctl(fd, request, arg)    == Syscall("IOCTL", fd, request, arg)
lseek(fd, offset, whence)  == Syscall("LSEEK", fd, offset, whence)
clock_gettime(clk_id, tp)  == Syscall("CLOCK_GETTIME", clk_id, tp, 0)
nanosleep(req, rem)        == Syscall("NANOSLEEP", req, rem, 0)

\* write(): one call a byte, with what is left of the text; an error ends it.
WriteByte(fd, rest)    == Syscall("WRITE", fd, Head(rest), 1)
LeftToWriteNoZero(rest, ret) == IF ret <= 0 THEN <<>> ELSE Tail(rest)  \* faulty
LeftToWrite(rest, ret) == IF ret < 0 THEN <<>> ELSE Tail(rest)
=============================================================================
