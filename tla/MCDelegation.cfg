SPECIFICATION Spec
CONSTANTS
  Refs <- MCRefs
  Base <- MCBase
  Suffixed <- MCSuffixed
  Caps <- MCCaps
  Delegate = "agent.delegate"
  Privileged <- MCPrivileged
  Outgoing <- MCOutgoing
  Selectors <- MCSelectors
  Direct = "direct"
  Graphs <- MCGraphs
INVARIANTS
  TypeOK
  NoReferenceLost
  ApprovalNotOverstated
  UniqueSameInAnyOrder
PROPERTIES
  ImplementsPromise
  Terminates
