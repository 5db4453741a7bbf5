------------------------------- MODULE MCPosix -------------------------------
(* Free programs for PosixSystem: each makes the calls of a set, in any order. *)
EXTENDS PosixSystem

MCFree ==
  [descriptors |->
     {open(t, 0) : t \in {FD_TYPE_UART, FD_TYPE_GPIO, 5}} \cup {close(f) : f \in {0, 3, 4}}
       \cup {lseek(3, 0, 0), read(4, NULL, 1), ioctl(4, GPIO_GET_INPUT, 0),
             WriteByte(MAX_FD, <<1>>), clock_gettime(0, NULL)},
   threads |->
     {pthread_create(NULL, NULL, p) : p \in Prios}
       \cup {pthread_join(1, NULL), pthread_yield, pthread_self, pthread_exit(0)},
   semaphores |->
     {sem_init(0, 1, 0), sem_wait(0), sem_trywait(0), sem_post(0), sem_getvalue(0, NULL),
      sem_destroy(0)},
   mutexes |->
     {pthread_mutex_init(0, NULL), pthread_mutex_lock(0), pthread_mutex_trylock(0),
      pthread_mutex_unlock(0), pthread_mutex_destroy(0), pthread_create(NULL, NULL, 0)},
   queues |->
     {mq_open(0, 0), mq_send(0, NULL, 1), mq_receive(0, NULL, 1), mq_close(0), pthread_detach(1)}]
=============================================================================
