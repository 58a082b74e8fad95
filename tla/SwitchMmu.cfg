CONSTANTS
  Port = {1, 2}
  Sizes = {1, 2}
  BufferSize = 17
  Reserve = 2
  ResumeOffset = 3
  Headroom <- TwoHeadrooms
  Alpha <- TwoAlphas
  Wrap = 65536
  MaxFrames = 2
SPECIFICATION Spec
INVARIANTS Accounted SharedIsSum HeadroomBound BufferBound HeadroomMeansPaused NoStuckPause PfcAgrees
