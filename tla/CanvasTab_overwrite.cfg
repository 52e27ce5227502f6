\* One tab adds a node while another one drags and then saves.
SPECIFICATION Spec
CONSTANTS
  c1 = c1
  c2 = c2
  k1 = k1
  n1 = n1
  n2 = n2
  Tabs = {t1, t2}
  Calls = {}
  Threads = {t1, t2}
  Nodes = {n1, n2, n3}
  FirstNodes = {n1}
  Links <- OneLink
  Keys = {k1}
  NoKey = NoKey
  Nobody = Nobody
  Sends <- Retried
  MaxVersion = 3
PROPERTIES
  NoSilentOverwrite
CHECK_DEADLOCK FALSE
