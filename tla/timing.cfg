SPECIFICATION Spec
CONSTANTS
  Drivers = {"apm", "et6000", "mx", "laguna", "savage", "trident", "sis", "sis_300", "i810", "i740", "cirrus", "nv3", "nv3_two_stage", "g400", "g450", "millennium", "banshee", "unichrome", "pm2", "pm2v", "rendition", "r128", "radeon", "rage"}
  Monitors = {"plain", "wide"}
  Modes <- MCModes
  Modelines <- MCModelines
  Guesses <- MCGuesses
  Deltas <- MCDeltas
  UserMax = 2
  ChangeMax = 1
  Wary = TRUE
INVARIANTS Programmed InMonitor CurrentTrue
PROPERTY Chosen
