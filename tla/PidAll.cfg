SPECIFICATION Spec
CONSTANTS
  Thread = {t1, t2}
  Child = {c1}
  Root = Root
  Limit = 4
  NoThread = NoThread
  NoContainer = NoContainer
  MaxNodes = 2
  Calls = {"task_delete", "remove_task", "malloc"}
SYMMETRY Symmetry
INVARIANTS TypeOK VidPartition LinkedHasVid
PROPERTIES VidNeverStolen ImplementsAllocator
