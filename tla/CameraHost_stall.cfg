\* A camera that stalls while the HTTP server runs.
SPECIFICATION ChSpec
CONSTANT MaxTroubles = 2
PROPERTY StalledCameraRestarted
