SPECIFICATION Spec
CONSTANTS
  Refs <- MCRefs
  Base <- MCBase
  Suffixed <- MCSuffixed
  Caps <- MCCaps
  Delegate = "agent.delegate"
  Privileged <- MCPrivileged
  Outgoing <- MCOutgoing
  Selectors <- MCSelectors
  Direct = "direct"
  Graphs <- SharedNameGraphs
INVARIANT SameInAnyOrder
