SPECIFICATION ModuleFairSpec
CONSTANTS
  Tasks = {t1, t2}
  Order <- MCOrder
  TailCalls = {"read"}
  Trusting = {"read", "unlink"}
  Hungry = {"unlink"}
  MaxLoads = 2
INVARIANT ModuleTypeOK
INVARIANT HooksMapped
INVARIANT LeavesNothing
PROPERTY FaultExplained
PROPERTY UnloadEnds
