SPECIFICATION Spec
CONSTANTS
  q1 = q1
  q2 = q2
  q3 = q3
  n1 = n1
  n2 = n2
  a1 = a1
  a2 = a2
  a3 = a3
  b1 = b1
  b2 = b2
  b3 = b3
  t1 = t1
  t2 = t2
  f1 = f1
  f2 = f2
  NoReg = NoReg
  NoRun = NoRun
  Names <- MCNames
  Agents <- MCAgents
  Boxes <- MCBoxes
  Feedbacks <- MCFeedbacks
  FirstFeedback = f1
  Regs <- TwoRegs
  NameOf <- OneName
  AgentOf <- TwoDistinct
  BoxOf <- TwoBoxes
  WithSkills = {}
  Runs <- TwoRuns
INVARIANTS
  OneRunPerName
