SPECIFICATION Spec
CONSTANTS
  Keys = {k1, k2}
  Threads = {t1, t2, t3}
  Mutexes = {m1, m2, m3, m4}
  Nobody = Nobody
  NoMutex = NoMutex
INVARIANT MutualExclusion
PROPERTIES ImplementsKeyMutex WaiterServed
