SPECIFICATION FairSpec
CONSTANTS
  Hosts = {"v3", "ds", "lib"}
  Submissions = {"x", "y"}
  Scopes = {"NONE", "SCENE", "CHAPTER"}
  Beats <- MCBeats
  Casts = {1}
  Refs = {0, 2}
  Ceiling = 2
  MaxChapters = 2
  MaxScenes = 2
  MaxGates = 2
  MaxRevisions = 2
  MaxTick = 3
  MaxAborts = 1
CHECK_DEADLOCK FALSE
INVARIANTS StoryHangsTogether
PROPERTIES StoryIsKept 
