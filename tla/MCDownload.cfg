\* Either tool and server, and three failed or interrupted runs.
CONSTANTS
  Datasets = {"enwik8", "enwik9"}
  TargetLists <- ScriptTargets
  Tools = {"unzip", "bsdtar"}
  Servers = {"honest", "changed"}
  MaxFaults = 3
SPECIFICATION Spec
INVARIANT PresentMeansWhole
PROPERTIES
  SuccessLasts
  Heals
