SPECIFICATION BusSpec
CONSTANTS
  Pausers = {"ws", "daemon"}
  Resumers = {"ws"}
  Nothing = Nothing
  Noise = Noise
  PowerLimit = 3
  MaxFaults = 2
INVARIANTS TypeOK QuietUnlessLateMark OwnReading
PROPERTIES HungSensorRecovers PauseWaitsForSensors
CHECK_DEADLOCK FALSE
