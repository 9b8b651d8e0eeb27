SPECIFICATION Spec
CONSTANTS
  Fds = {1, 2}
  MaxSerial = 3
  Limits = {1, 2}
  BatchSize = 2
  Upstreams = {FALSE}
INVARIANT
  EveryDescriptorOwned
