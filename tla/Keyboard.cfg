\* A ring of four slots, one letter, one other key and one without character:
\* the ring fills, wraps around and drops characters.
CONSTANTS
  Letters = {a}
  Others = {one}
  Dead = {ctrl}
  BufSize = 4
  Zero = Zero
SPECIFICATION Spec
PROPERTY ImplementsQueue
