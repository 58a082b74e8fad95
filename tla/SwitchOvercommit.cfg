CONSTANTS
  Port = {1, 2}
  Sizes = {1}
  BufferSize = 6
  Reserve = 1
  ResumeOffset = 1
  Headroom <- ShippedHeadrooms
  Alpha <- ShippedAlphas
  Wrap = 65536
  MaxFrames = 2
SPECIFICATION Spec
INVARIANT BufferBound
